---- MODULE Spec2Model ----
(***************************************************************************)
(* A model of rust-vpk: the packer (pack.rs), the package reader           *)
(* (package.rs, io.rs), unpack (unpack.rs, archive_cache.rs), the          *)
(* integrity check (check.rs) and the FUSE read path (mount.rs).           *)
(*                                                                         *)
(* Files are sequences of bytes (0..255); strings are sequences of their   *)
(* byte values, so that "dir" is <<100, 105, 114>>.                        *)
(*                                                                         *)
(* Byte counts and offsets are 32 bits wide in the program.  The model     *)
(* keeps the program's casts and limits but makes the width of a byte      *)
(* count OffsetBits bits, so that a running archive size can outgrow an    *)
(* offset field with a handful of files.  Everything else (the 16 bit      *)
(* fields, the record layouts, the 4 byte little-endian encoding of a      *)
(* 32 bit field) is as in the program.                                     *)
(***************************************************************************)
EXTENDS Integers, Sequences, FiniteSets, TLC

(***************************************************************************)
(* Bounds of the model.                                                    *)
(***************************************************************************)
MaxFiles == 3

OffsetBits == 8

(***************************************************************************)
(* consts.rs                                                               *)
(***************************************************************************)
VPK_MAGIC == <<52, 18, 170, 85>>

DIR_INDEX == 32767

TERMINATOR == 65535

V1_HEADER_SIZE == 4 * 3

V2_HEADER_SIZE == 4 * 3 + 4 * 4

ARCHIVE_MD5_SIZE == 4 * 3 + 16

MAX_ARCHIVE_INDEX == 999

U16_MAX == 65535

U32_MOD == 2 ^ OffsetBits

U32_MAX == U32_MOD - 1

I32_MAX == 2 ^ (OffsetBits - 1) - 1

\* `x as u32` of a byte count
AsU32(x) == x % U32_MOD

(***************************************************************************)
(* Strings and byte sequences.                                             *)
(***************************************************************************)
Min(a, b) == IF a < b THEN a ELSE b

Max(a, b) == IF a > b THEN a ELSE b

\* bytes[from+1 .. from+n] (0-based offset `from`, like a slice [from..from+n])
Slice(bytes, from, n) == [i \in 1..n |-> bytes[from + i]]

\* Ord::cmp of two strings / byte slices: byte-wise lexicographic
RECURSIVE StrCmpAt(_, _, _)
StrCmpAt(a, b, i) ==
    IF i > Len(a) THEN (IF i > Len(b) THEN 0 ELSE -1)
    ELSE IF i > Len(b) THEN 1
    ELSE IF a[i] < b[i] THEN -1
    ELSE IF a[i] > b[i] THEN 1
    ELSE StrCmpAt(a, b, i + 1)

StrCmp(a, b) == StrCmpAt(a, b, 1)

\* Vec::sort of a set of distinct strings
RECURSIVE SortStrs(_)
SortStrs(S) ==
    IF S = {} THEN <<>>
    ELSE LET m == CHOOSE x \in S : \A y \in S : StrCmp(x, y) <= 0
         IN  <<m>> \o SortStrs(S \ {m})

\* str::rfind(ch): the 1-based position of the last ch, 0 when there is none
RECURSIVE RFindAt(_, _, _)
RFindAt(s, ch, i) ==
    IF i = 0 THEN 0
    ELSE IF s[i] = ch THEN i
    ELSE RFindAt(s, ch, i - 1)

RFind(s, ch) == RFindAt(s, ch, Len(s))

\* the components joined by '/'
RECURSIVE JoinPath(_)
JoinPath(comps) ==
    IF comps = <<>> THEN <<>>
    ELSE IF Len(comps) = 1 THEN comps[1]
    ELSE comps[1] \o <<47>> \o JoinPath(Tail(comps))

\* split_path: the non-empty components of a '/'-separated string
RECURSIVE SplitFrom(_, _, _)
SplitFrom(s, i, cur) ==
    IF i > Len(s) THEN (IF cur = <<>> THEN <<>> ELSE <<cur>>)
    ELSE IF s[i] = 47
         THEN (IF cur = <<>> THEN <<>> ELSE <<cur>>) \o SplitFrom(s, i + 1, <<>>)
         ELSE SplitFrom(s, i + 1, Append(cur, s[i]))

split_path(s) == SplitFrom(s, 1, <<>>)

(***************************************************************************)
(* Digests.  CRC-32 and MD5 are modelled by a position-weighted checksum   *)
(* of the bytes: a function of the whole byte sequence, with collisions.   *)
(***************************************************************************)
\* the checksum of bytes[lo..hi], summed by halves
RECURSIVE HashRange(_, _, _)
HashRange(bytes, lo, hi) ==
    IF lo > hi THEN 0
    ELSE IF lo = hi THEN ((bytes[lo] + 1) * (((lo * 37) % 101) + 1)) % 65521
    ELSE LET mid == (lo + hi) \div 2
         IN  (HashRange(bytes, lo, mid) + HashRange(bytes, mid + 1, hi)) % 65521

Hash(bytes) == (HashRange(bytes, 1, Len(bytes)) + 131 * Len(bytes) + 1) % 65521

Crc32(bytes) == Hash(bytes) % U32_MOD

Md5(bytes) ==
    LET h == Hash(bytes)
    IN  <<h % 256, (h \div 256) % 256, Len(bytes) % 256>> \o [i \in 1..13 |-> 0]

ZeroMd5 == [i \in 1..16 |-> 0]

(***************************************************************************)
(* io.rs: the primitive codec.                                             *)
(***************************************************************************)
write_u16(v) == <<v % 256, (v \div 256) % 256>>

write_u32(v) ==
    <<v % 256, (v \div 256) % 256, (v \div 65536) % 256, (v \div 16777216) % 256>>

write_str(s) == s \o <<0>>

(***************************************************************************)
(* The input: a directory tree `indir` and the options of one pack run.    *)
(* A tree is a set of regular files, each the sequence of the components   *)
(* of its path below indir and its contents.                               *)
(***************************************************************************)
Pattern(seed, n) == [i \in 1..n |-> (seed + 7 * i) % 256]

BigSize == I32_MAX - 7

Candidates ==
    { \* dir/d/b.x
      [path |-> <<<<100, 105, 114>>, <<100>>, <<98, 46, 120>>>>, data |-> Pattern(1, 3)],
      \* dir/d/b-a.x
      [path |-> <<<<100, 105, 114>>, <<100>>, <<98, 45, 97, 46, 120>>>>, data |-> Pattern(2, BigSize)],
      \* dir/d/a.y
      [path |-> <<<<100, 105, 114>>, <<100>>, <<97, 46, 121>>>>, data |-> Pattern(3, BigSize)],
      \* 000/d/a.y
      [path |-> <<<<48, 48, 48>>, <<100>>, <<97, 46, 121>>>>, data |-> Pattern(4, 5)],
      \* 000/e/c.x
      [path |-> <<<<48, 48, 48>>, <<101>>, <<99, 46, 120>>>>, data |-> Pattern(5, 3)],
      \* 001/d/c.x
      [path |-> <<<<48, 48, 49>>, <<100>>, <<99, 46, 120>>>>, data |-> Pattern(6, 1)],
      \* inline/d/i.x
      [path |-> <<<<105, 110, 108, 105, 110, 101>>, <<100>>, <<105, 46, 120>>>>, data |-> Pattern(7, 3)],
      \* 000/d/z.x (empty)
      [path |-> <<<<48, 48, 48>>, <<100>>, <<122, 46, 120>>>>, data |-> <<>>],
      \* zz/d/q.x
      [path |-> <<<<122, 122>>, <<100>>, <<113, 46, 120>>>>, data |-> Pattern(9, 3)],
      \* r.x
      [path |-> <<<<114, 46, 120>>>>, data |-> Pattern(10, 1)]
    }

Trees == {T \in SUBSET Candidates : Cardinality(T) <= MaxFiles}

\* 3 stands for the versions pack does not support
Versions == {0, 1, 2, 3}

Md5ChunkSizes == {2, 64}

MaxSizes == {6, I32_MAX}

Alignments == {1, 3}

MaxInlineSizes == {2}

\* ArchiveStrategy
Strategies ==
    {[kind |-> "ArchiveFromDirName", max_size |-> 0]}
    \cup {[kind |-> "MaxArchiveSize", max_size |-> s] : s \in MaxSizes}

\* PackOptions
PackOptions ==
    { o \in [version : Versions, md5_chunk_size : Md5ChunkSizes, strategy : Strategies,
             max_inline_size : MaxInlineSizes, alignment : Alignments] :
        o.version # 2 => o.md5_chunk_size = 64 }

VARIABLES
    pc,            \* where the run is
    error,         \* the error pack / from_path returned ("" when none)
    indir,         \* the input tree
    options,       \* the PackOptions
    entries,       \* pack: vpk path -> File (the tree of HashMaps, flattened)
    exts,          \* Gather.exts
    list,          \* pack: the paths of the files, sorted (the Items of `list`)
    index_size,    \* pack: index_size
    dir_size,      \* pack: dir_size = header_size + index_size
    data_end_offset, \* pack: data_end_offset
    disk,          \* the output files: archive index -> bytes (DIR_INDEX: the dir file)
    archive_md5s,  \* pack: archive_md5s, the chunk table of the returned Package
    pkg,           \* the Package that Package::from_path read from the dir file
    unpacked,      \* the result of unpack and the files below outdir
    report,        \* the result of check
    inode,         \* mount: the file entry of the inode that is read
    reply,         \* mount: the reply to the last read request
    walk,          \* pack: the archive walk of MaxArchiveSize from a state of its loop
    records,       \* the records of the index of a dir file given to the reader
    lookup,        \* the result of the last path resolution in the package
    sorting,       \* list --sort: the order string, the list and the sorted list
    cache          \* ArchiveCache: the open handles and the last call on it

vars == <<pc, error, indir, options, entries, exts, list, index_size, dir_size,
          data_end_offset, disk, archive_md5s, pkg, unpacked, report, inode, reply,
          walk, records, lookup, sorting, cache>>

mountVars == <<inode, reply>>

toolVars == <<walk, records, lookup, sorting, cache>>

packIn == <<indir, options>>

layoutVars == <<list, index_size, dir_size, data_end_offset>>

(***************************************************************************)
(* pack.rs, pass 1: Gather::gather_files and the strategy match of pack.   *)
(***************************************************************************)
IsDigit(c) == c \in 48..57

\* <u16 as FromStr>::from_str on a 3 byte name; -1 when it is an Err.
\* (An unsigned integer may carry a leading '+'.)
ParseU16(name) ==
    IF IsDigit(name[1]) /\ IsDigit(name[2]) /\ IsDigit(name[3])
    THEN (name[1] - 48) * 100 + (name[2] - 48) * 10 + (name[3] - 48)
    ELSE IF name[1] = 43 /\ IsDigit(name[2]) /\ IsDigit(name[3])
    THEN (name[2] - 48) * 10 + (name[3] - 48)
    ELSE -1

\* pack.rs 441-461: what a top-level folder of indir maps to under
\* ArchiveFromDirName: [scan, archive_index, inline]
FolderTarget(name) ==
    IF name = <<100, 105, 114>>
    THEN [scan |-> TRUE, archive_index |-> DIR_INDEX, inline |-> FALSE]
    ELSE IF name = <<105, 110, 108, 105, 110, 101>>
    THEN [scan |-> TRUE, archive_index |-> DIR_INDEX, inline |-> TRUE]
    ELSE IF Len(name) # 3
    THEN [scan |-> FALSE, archive_index |-> 0, inline |-> FALSE]
    ELSE IF ParseU16(name) >= 0 /\ ParseU16(name) <= MAX_ARCHIVE_INDEX
    THEN [scan |-> TRUE, archive_index |-> ParseU16(name), inline |-> FALSE]
    ELSE [scan |-> FALSE, archive_index |-> 0, inline |-> FALSE]

\* The regular files gather_files visits, each with the path it gets in the
\* package (rel), the archive index and inline flag of the call that visits
\* it, and the path it was read from (src).
Scanned(tree, opts) ==
    IF opts.strategy.kind = "MaxArchiveSize"
    THEN { [rel |-> f.path, archive_index |-> DIR_INDEX, inline |-> FALSE,
            src |-> f.path, data |-> f.data] : f \in tree }
    ELSE { [rel |-> Tail(f.path), archive_index |-> FolderTarget(f.path[1]).archive_index,
            inline |-> FolderTarget(f.path[1]).inline,
            src |-> f.path, data |-> f.data] :
           f \in {g \in tree : Len(g.path) > 1 /\ FolderTarget(g.path[1]).scan} }

FileName(s) == s.rel[Len(s.rel)]

\* the directories gather_files enters or creates below the root map
DirPaths(S) == UNION { { SubSeq(s.rel, 1, k) : k \in 1..(Len(s.rel) - 1) } : s \in S }

\* gather_files 158-265: the error a single file raises, "" when it is accepted
FileError(s, opts) ==
    LET name == FileName(s)
        dot  == RFind(name, 46)
        size == Len(s.data)
    IN  IF Len(s.rel) = 1 THEN "all files must be in sub-directories"
        ELSE IF dot = 0 THEN "filenames must be of format NAME.EXT"
        ELSE IF dot = 1 \/ dot = Len(name) THEN "filenames must be of format NAME.EXT"
        ELSE IF size > I32_MAX THEN "file too big"
        ELSE IF (s.inline \/ size <= opts.max_inline_size) /\ size > U16_MAX
             THEN "file is meant to be inlined into the index, but is too big"
        ELSE ""

\* gather_files 141-150, 233-262: two visited files get the same path in the
\* package, or one is a file where the other needs a directory
Conflicts(S) ==
    { "file occured twice" : s \in { x \in S : \E y \in S : y # x /\ y.rel = x.rel } }
    \cup { "entry not a dir" : s \in { x \in S : x.rel \in DirPaths(S) } }

GatherErrors(tree, opts) ==
    LET S == Scanned(tree, opts)
    IN  ({ FileError(s, opts) : s \in S } \ {""}) \cup Conflicts(S)

\* gather_files 185-232: the File entry of an accepted file
GatherFile(s, opts) ==
    LET size    == Len(s.data)
        inlined == s.inline \/ size <= opts.max_inline_size
    IN  [ index         |-> 0,
          crc32         |-> Crc32(s.data),
          inline_size   |-> IF inlined THEN size ELSE 0,
          archive_index |-> s.archive_index,
          offset        |-> 0,
          size          |-> IF inlined THEN 0 ELSE size,
          preload       |-> IF inlined THEN s.data ELSE <<>> ]

GatherEntries(tree, opts) ==
    LET S == Scanned(tree, opts)
    IN  [ p \in { JoinPath(s.rel) : s \in S } |->
            GatherFile(CHOOSE s \in S : JoinPath(s.rel) = p, opts) ]

GatherExts(tree, opts) ==
    { LET name == FileName(s) IN Slice(name, RFind(name, 46), Len(name) - RFind(name, 46)) :
        s \in Scanned(tree, opts) }

Init ==
    /\ pc = "start"
    /\ error = ""
    /\ indir \in Trees
    /\ options \in PackOptions
    /\ entries = << >>
    /\ exts = {}
    /\ list = << >>
    /\ index_size = 0
    /\ dir_size = 0
    /\ data_end_offset = 0
    /\ disk = << >>
    /\ archive_md5s = << >>
    /\ pkg = [err |-> "not read"]
    /\ unpacked = [status |-> "none"]
    /\ report = [status |-> "none"]
    /\ inode = [ino |-> 0]
    /\ reply = [kind |-> "none"]
    /\ walk = [to |-> "none"]
    /\ records = << >>
    /\ lookup = [kind |-> "none"]
    /\ sorting = [stage |-> "none"]
    /\ cache = [status |-> "none"]

\* pack 410-468
Gather ==
    /\ pc = "start"
    /\ IF options.version > 2
       THEN /\ pc' = "failed"
            /\ error' = "unsupported version"
            /\ UNCHANGED <<entries, exts>>
       ELSE IF GatherErrors(indir, options) # {}
       THEN /\ pc' = "failed"
            /\ error' \in GatherErrors(indir, options)
            /\ UNCHANGED <<entries, exts>>
       ELSE /\ pc' = "gathered"
            /\ entries' = GatherEntries(indir, options)
            /\ exts' = GatherExts(indir, options)
            /\ UNCHANGED error
    /\ UNCHANGED <<mountVars, toolVars, packIn, layoutVars, disk, archive_md5s, pkg, unpacked, report>>

(***************************************************************************)
(* pack.rs, pass 2: the index size and the offsets (pack 475-588).         *)
(***************************************************************************)
\* Item::ext, Item::name, Item::dir of a path dir/NAME.EXT
DotIndex(path) == RFind(path, 46)

SlashIndex(path) == RFindAt(path, 47, DotIndex(path) - 1)

ItemExt(path) == Slice(path, DotIndex(path), Len(path) - DotIndex(path))

ItemName(path) == Slice(path, SlashIndex(path), DotIndex(path) - SlashIndex(path) - 1)

ItemDir(path) == Slice(path, 0, SlashIndex(path) - 1)

\* pack 410-415
HeaderSize(version) ==
    IF version = 0 THEN 0
    ELSE IF version = 1 THEN V1_HEADER_SIZE
    ELSE V2_HEADER_SIZE

\* the bytes of one entry record without the preload: 4 + 2 + 2 + 4 + 4 + 2
EntryRecordSize == 4 + 2 + 2 + 4 + 4 + 2

\* the sum of the values of a function with a finite domain
RECURSIVE SumFn(_)
SumFn(f) ==
    IF DOMAIN f = {} THEN 0
    ELSE LET x == CHOOSE y \in DOMAIN f : TRUE
         IN  f[x] + SumFn([z \in DOMAIN f \ {x} |-> f[z]])

\* a variant of IndexSize that leaves the preload bytes out
IndexSizeNoPreload(ents, extset) ==
    LET paths    == DOMAIN ents
        groups   == { <<ItemExt(p), ItemDir(p)>> : p \in paths }
    IN  SumFn([e \in extset |-> Len(e) + 1 + 1])
        + 1
        + SumFn([g \in groups |-> Len(g[2]) + 1 + 1])
        + SumFn([p \in paths |-> Len(ItemName(p)) + 1 + EntryRecordSize])

\* pack 475-511
IndexSize(ents, extset) ==
    LET paths    == DOMAIN ents
        groups   == { <<ItemExt(p), ItemDir(p)>> : p \in paths }
    IN  SumFn([e \in extset |-> Len(e) + 1 + 1])
        + 1
        + SumFn([g \in groups |-> Len(g[2]) + 1 + 1])
        + SumFn([p \in paths |->
                   Len(ItemName(p)) + 1 + EntryRecordSize + ents[p].inline_size])

\* pack 536-541 and 577-580: round the running size up to the alignment
AlignUp(archive_size, alignment) ==
    IF archive_size % alignment # 0
    THEN archive_size + (alignment - (archive_size % alignment))
    ELSE archive_size

\* a mutation of ExceedsMax: the comparison is off by three bytes
ExceedsMaxLoose(new_size, max_size) == new_size > max_size + 3

\* pack 544: the file does not fit the current archive
ExceedsMax(new_size, max_size) == new_size > max_size

\* a variant of NextArchive that counts on from DIR_INDEX
NextArchiveCounting(archive_index) == archive_index + 1

\* pack 545-552: the archive that follows archive_index
NextArchive(archive_index) ==
    IF archive_index = DIR_INDEX THEN 0 ELSE archive_index + 1

\* pack 536-564: one iteration of the loop of MaxArchiveSize, for the file
\* at path p.  st is the loop state
\* [ents, archive_index, archive_size, data_end, err].
MaxStep(p, opts, st) ==
    LET f == st.ents[p] IN
    IF f.size = 0 THEN st
    ELSE LET aligned  == AlignUp(st.archive_size, opts.alignment)
             new_size == aligned + f.size
         IN  IF ExceedsMax(new_size, opts.strategy.max_size)
             THEN IF st.archive_index # DIR_INDEX /\ st.archive_index = MAX_ARCHIVE_INDEX
                  THEN [st EXCEPT !.err = "too many archives"]
                  ELSE LET idx == NextArchive(st.archive_index)
                       IN  [ ents |-> [st.ents EXCEPT ![p] =
                                         [f EXCEPT !.offset = 0, !.archive_index = idx]],
                             archive_index |-> idx,
                             archive_size  |-> f.size,
                             data_end |-> IF st.archive_index = DIR_INDEX
                                          THEN aligned ELSE st.data_end,
                             err |-> "" ]
             ELSE [ ents |-> [st.ents EXCEPT ![p] =
                                [f EXCEPT !.offset = AsU32(aligned),
                                          !.archive_index = st.archive_index]],
                    archive_index |-> st.archive_index,
                    archive_size  |-> new_size,
                    data_end |-> st.data_end,
                    err |-> "" ]

\* pack 530-566: ArchiveStrategy::MaxArchiveSize, the loop over list
RECURSIVE DistributeMax(_, _, _, _)
DistributeMax(lst, k, opts, st) ==
    IF k > Len(lst) \/ st.err # "" THEN st
    ELSE DistributeMax(lst, k + 1, opts, MaxStep(lst[k], opts, st))

\* pack 567-587: ArchiveStrategy::ArchiveFromDirName.  st is
\* [ents, archmap] with archmap the running size of each archive.
RECURSIVE DistributeDirName(_, _, _, _)
DistributeDirName(lst, k, opts, st) ==
    IF k > Len(lst) THEN st
    ELSE LET f == st.ents[lst[k]] IN
         IF f.size = 0 THEN DistributeDirName(lst, k + 1, opts, st)
         ELSE LET cur     == IF f.archive_index \in DOMAIN st.archmap
                             THEN st.archmap[f.archive_index] ELSE 0
                  aligned == AlignUp(cur, opts.alignment)
              IN  DistributeDirName(lst, k + 1, opts,
                    [ ents |-> [st.ents EXCEPT ![lst[k]] = [f EXCEPT !.offset = AsU32(aligned)]],
                      archmap |-> [a \in DOMAIN st.archmap \cup {f.archive_index} |->
                                     IF a = f.archive_index THEN aligned + f.size
                                     ELSE st.archmap[a]] ])

\* the panic of the `%` operator when its right operand is 0
RemainderByZero == "panic: attempt to calculate the remainder with a divisor of zero"

\* pack 528-588: the entries with their offsets, data_end_offset, the error
Distribute(lst, ents, opts, dsize) ==
    \* 538, 577: `% options.alignment` at the first file with size > 0
    IF opts.alignment = 0 /\ \E k \in DOMAIN lst : ents[lst[k]].size > 0
    THEN [ ents |-> ents, data_end |-> dsize, err |-> RemainderByZero ]
    ELSE IF opts.strategy.kind = "MaxArchiveSize"
    THEN LET r == DistributeMax(lst, 1, opts,
                    [ents |-> ents, archive_index |-> DIR_INDEX, archive_size |-> dsize,
                     data_end |-> dsize, err |-> ""])
         IN  [ ents |-> r.ents,
               data_end |-> IF r.archive_index = DIR_INDEX THEN r.archive_size ELSE r.data_end,
               err |-> r.err ]
    ELSE LET r == DistributeDirName(lst, 1, opts,
                    [ents |-> ents, archmap |-> (DIR_INDEX :> dsize)])
         IN  [ ents |-> r.ents, data_end |-> r.archmap[DIR_INDEX], err |-> "" ]

\* a variant of Layout that creates the dir file before the offsets are
\* assigned
LayoutAfterCreate ==
    /\ pc = "gathered"
    /\ disk' = (DIR_INDEX :> <<>>)
    /\ LET isize  == IndexSize(entries, exts)
           dsize  == HeaderSize(options.version) + isize
           sorted == SortStrs(DOMAIN entries)
           d      == Distribute(sorted, entries, options, dsize)
       IN  IF isize > I32_MAX
           THEN /\ pc' = "failed"
                /\ error' = "index too large"
                /\ UNCHANGED <<entries, list, index_size, dir_size, data_end_offset>>
           ELSE /\ list' = sorted
                /\ index_size' = AsU32(isize)
                /\ dir_size' = dsize
                /\ IF d.err # ""
                   THEN /\ pc' = "failed"
                        /\ error' = d.err
                        /\ UNCHANGED <<entries, data_end_offset>>
                   ELSE /\ pc' = "laid_out"
                        /\ entries' = d.ents
                        /\ data_end_offset' = d.data_end
                        /\ UNCHANGED error
    /\ UNCHANGED <<mountVars, toolVars, packIn, exts, archive_md5s, pkg, unpacked, report>>

\* pack 475-588
Layout ==
    /\ pc = "gathered"
    /\ LET isize  == IndexSize(entries, exts)
           dsize  == HeaderSize(options.version) + isize
           sorted == SortStrs(DOMAIN entries)
           d      == Distribute(sorted, entries, options, dsize)
       IN  IF isize > I32_MAX
           THEN /\ pc' = "failed"
                /\ error' = "index too large"
                /\ UNCHANGED <<entries, layoutVars>>
           ELSE /\ list' = sorted
                /\ index_size' = AsU32(isize)
                /\ dir_size' = dsize
                /\ IF d.err # ""
                   THEN /\ pc' = "failed"
                        /\ error' = d.err
                        /\ UNCHANGED <<entries, data_end_offset>>
                   ELSE /\ pc' = "laid_out"
                        /\ entries' = d.ents
                        /\ data_end_offset' = d.data_end
                        /\ UNCHANGED error
    /\ UNCHANGED <<mountVars, toolVars, packIn, exts, disk, archive_md5s, pkg, unpacked, report>>

(***************************************************************************)
(* pack.rs, emit: write_dir (305-360), io.rs write_file (88-103) and the   *)
(* payload loop (pack 656-720).                                            *)
(***************************************************************************)
\* the elements of lst that satisfy keep, in the order of lst
RECURSIVE FilterSeq(_, _)
FilterSeq(lst, keep) ==
    IF lst = <<>> THEN <<>>
    ELSE (IF Head(lst) \in keep THEN <<Head(lst)>> ELSE <<>>) \o FilterSeq(Tail(lst), keep)

\* io.rs 92-96: `entry.offset - dir_size` is a u32 subtraction
OffsetUnderflows(file, dsize) ==
    file.archive_index = DIR_INDEX /\ file.offset # 0 /\ file.offset < dsize

\* a mutation of write_file: the offset of an entry of the dir file is
\* written as it is, not relative to the end of the index
write_file_absolute(file, dsize, checked) ==
    [bytes |-> write_u32(file.crc32) \o write_u16(file.inline_size)
               \o write_u16(file.archive_index) \o write_u32(file.offset)
               \o write_u32(file.size) \o write_u16(TERMINATOR) \o file.preload,
     stop  |-> FALSE]

\* io.rs 88-103.  With overflow checks the subtraction panics after the
\* first three fields are written; without them it wraps.
write_file(file, dsize, checked) ==
    LET head == write_u32(file.crc32) \o write_u16(file.inline_size)
                \o write_u16(file.archive_index)
    IN  IF checked /\ OffsetUnderflows(file, dsize)
        THEN [bytes |-> head, stop |-> TRUE]
        ELSE [bytes |-> head
                        \o write_u32(IF file.archive_index = DIR_INDEX /\ file.offset # 0
                                     THEN (file.offset - dsize) % U32_MOD
                                     ELSE file.offset)
                        \o write_u32(file.size)
                        \o write_u16(TERMINATOR)
                        \o file.preload,
              stop  |-> FALSE]

\* write_dir 317-332
HeaderBytes(version, isize) ==
    IF version > 0
    THEN VPK_MAGIC \o write_u32(version) \o write_u32(isize)
         \o (IF version > 1 THEN [i \in 1..16 |-> 0] ELSE <<>>)
    ELSE <<>>

\* write_dir 334-355: the writes of the index, one token per write_str /
\* write_file / terminator, in the order they are made
RECURSIVE FileTokens(_, _, _, _)
FileTokens(filelist, ents, dsize, checked) ==
    IF filelist = <<>> THEN <<>>
    ELSE << [bytes |-> write_str(ItemName(Head(filelist))), stop |-> FALSE],
            write_file(ents[Head(filelist)], dsize, checked) >>
         \o FileTokens(Tail(filelist), ents, dsize, checked)

RECURSIVE DirTokens(_, _, _, _, _, _)
DirTokens(dirs, ext, lst, ents, dsize, checked) ==
    IF dirs = <<>> THEN <<>>
    ELSE << [bytes |-> write_str(Head(dirs)), stop |-> FALSE] >>
         \o FileTokens(FilterSeq(lst, {p \in DOMAIN ents :
                                          ItemExt(p) = ext /\ ItemDir(p) = Head(dirs)}),
                       ents, dsize, checked)
         \o << [bytes |-> <<0>>, stop |-> FALSE] >>
         \o DirTokens(Tail(dirs), ext, lst, ents, dsize, checked)

RECURSIVE ExtTokens(_, _, _, _, _)
ExtTokens(extlist, lst, ents, dsize, checked) ==
    IF extlist = <<>> THEN <<>>
    ELSE << [bytes |-> write_str(Head(extlist)), stop |-> FALSE] >>
         \o DirTokens(SortStrs({ItemDir(p) : p \in {q \in DOMAIN ents : ItemExt(q) = Head(extlist)}}),
                      Head(extlist), lst, ents, dsize, checked)
         \o << [bytes |-> <<0>>, stop |-> FALSE] >>
         \o ExtTokens(Tail(extlist), lst, ents, dsize, checked)

\* the bytes of the tokens up to the first one that stops
RECURSIVE TokensBytes(_)
TokensBytes(tokens) ==
    IF tokens = <<>> THEN <<>>
    ELSE IF Head(tokens).stop THEN Head(tokens).bytes
    ELSE Head(tokens).bytes \o TokensBytes(Tail(tokens))

\* write_dir 305-360: the bytes of the dir file after write_dir
write_dir(extset, lst, ents, version, dsize, isize, checked) ==
    HeaderBytes(version, isize)
    \o TokensBytes(ExtTokens(SortStrs(extset), lst, ents, dsize, checked)
                   \o << [bytes |-> <<0>>, stop |-> FALSE] >>)

\* pack 619-639
WriteDir ==
    /\ pc = "laid_out"
    /\ \E checked \in BOOLEAN :
         LET underflow == \E p \in DOMAIN entries : OffsetUnderflows(entries[p], AsU32(dir_size))
             bytes == write_dir(exts, list, entries, options.version, AsU32(dir_size),
                                index_size, checked)
         IN  /\ checked => underflow
             /\ disk' = (DIR_INDEX :> bytes)
             /\ IF checked
                THEN pc' = "failed" /\ error' = "panic: attempt to subtract with overflow"
                ELSE IF Len(bytes) # dir_size
                THEN pc' = "failed" /\ error' = "internal error: actual_dir_size != dir_size"
                ELSE pc' = "dir_written" /\ UNCHANGED error
    /\ UNCHANGED <<mountVars, toolVars, packIn, entries, exts, layoutVars, archive_md5s, pkg, unpacked, report>>

\* a write of data at byte offset off of a file (a seek past the end leaves zeros)
WriteAt(bytes, off, data) ==
    [i \in 1..Max(Len(bytes), off + Len(data)) |->
        IF i > off /\ i <= off + Len(data) THEN data[i - off]
        ELSE IF i <= Len(bytes) THEN bytes[i]
        ELSE 0]

\* format!("{:03}", archive_index)
Fmt03(n) ==
    IF n < 1000
    THEN <<48 + (n \div 100), 48 + ((n \div 10) % 10), 48 + (n % 10)>>
    ELSE <<48 + (n \div 1000)>> \o <<48 + ((n \div 100) % 10), 48 + ((n \div 10) % 10), 48 + (n % 10)>>

\* pack 684-696: the path the payload of a file is read from
SourcePath(vpk_path, archive_index, opts) ==
    (IF opts.strategy.kind = "ArchiveFromDirName"
     THEN (IF archive_index = DIR_INDEX THEN << <<100, 105, 114>> >>
           ELSE << Fmt03(archive_index) >>)
     ELSE <<>>)
    \o split_path(vpk_path)

SourceExists(tree, path) == \E f \in tree : f.path = path

SourceData(tree, path) == (CHOOSE f \in tree : f.path = path).data

\* pack 672-719: the files of one archive written in turn into `bytes`
RECURSIVE WriteFiles(_, _, _, _, _)
WriteFiles(bytes, filelist, ents, tree, opts) ==
    IF filelist = <<>> THEN bytes
    ELSE LET f   == ents[Head(filelist)]
             src == SourcePath(Head(filelist), f.archive_index, opts)
         IN  IF f.size = 0 THEN WriteFiles(bytes, Tail(filelist), ents, tree, opts)
             ELSE WriteFiles(WriteAt(bytes, f.offset,
                                     Slice(SourceData(tree, src), f.inline_size, f.size)),
                             Tail(filelist), ents, tree, opts)

\* the keys of archmap (pack 591-613)
ArchiveKeys(ents) == { ents[p].archive_index : p \in DOMAIN ents }

\* pack 656-720
WriteArchives ==
    /\ pc = "dir_written"
    /\ LET missing == { p \in DOMAIN entries :
                          /\ entries[p].size > 0
                          /\ ~SourceExists(indir, SourcePath(p, entries[p].archive_index, options)) }
           present == [p \in DOMAIN entries \ missing |-> entries[p]]
           Written(a) == WriteFiles(IF a = DIR_INDEX THEN disk[DIR_INDEX] ELSE <<>>,
                                    FilterSeq(list, {p \in DOMAIN present :
                                                       present[p].archive_index = a}),
                                    present, indir, options)
       IN  IF missing # {}
           THEN /\ pc' = "failed"
                /\ error' = "io error: source file"
                /\ \E done \in SUBSET ArchiveKeys(entries) :
                     disk' = [a \in {DIR_INDEX} \cup done |->
                                IF a \in done THEN Written(a) ELSE disk[a]]
           ELSE /\ pc' = "archives_written"
                /\ disk' = [a \in {DIR_INDEX} \cup ArchiveKeys(entries) |-> Written(a)]
                /\ UNCHANGED error
    /\ UNCHANGED <<mountVars, toolVars, packIn, entries, exts, layoutVars, archive_md5s, pkg, unpacked, report>>

(***************************************************************************)
(* pack.rs, V2 finalization (722-933).                                     *)
(***************************************************************************)
\* the orders in which a HashMap may yield the keys S
Perms(S) == { q \in [1..Cardinality(S) -> S] : \A i, j \in DOMAIN q : q[i] = q[j] => i = j }

\* pack 722-723
DataOffset(dsize) == AsU32(dsize)

DataSize(dend, dsize) == AsU32(dend - DataOffset(dsize))

\* a mutation of ChunkStart: the dir file is chunked from its first byte
ChunkStartZero(a, dsize) == 0

\* pack 768-783: where the chunking of one archive starts and how much it covers
ChunkStart(a, dsize) == IF a = DIR_INDEX THEN DataOffset(dsize) ELSE 0

ChunkTotal(a, files, dend, dsize) ==
    IF a = DIR_INDEX THEN DataSize(dend, dsize) ELSE AsU32(Len(files[a]))

\* pack 785-819: the chunk records of one archive (offset is a u32 that
\* `offset += md5_chunk_size` advances)
ArchiveChunks(a, files, dend, dsize, chunk) ==
    LET start == ChunkStart(a, dsize)
        total == ChunkTotal(a, files, dend, dsize)
        n     == (total + chunk - 1) \div chunk
    IN  [i \in 1..n |->
           [ archive_index |-> a,
             offset |-> AsU32(start + (i - 1) * chunk),
             size   |-> Min(chunk, total - (i - 1) * chunk),
             md5    |-> Md5(Slice(files[a], start + (i - 1) * chunk,
                                  Min(chunk, total - (i - 1) * chunk))) ]]

\* pack 776-780
FileTooBig(a, files) == a # DIR_INDEX /\ Len(files[a]) > U32_MAX

\* pack 790, 808: read_exact runs past the end of the file
ChunkEof(a, files, dend, dsize) ==
    ChunkStart(a, dsize) + ChunkTotal(a, files, dend, dsize) > Len(files[a])

\* pack 802: the u32 addition overflows
ChunkOffsetOverflows(a, files, dend, dsize, chunk) ==
    ChunkStart(a, dsize) + (ChunkTotal(a, files, dend, dsize) \div chunk) * chunk > U32_MAX

RECURSIVE ChunkTable(_, _, _, _, _)
ChunkTable(order, files, dend, dsize, chunk) ==
    IF order = <<>> THEN <<>>
    ELSE ArchiveChunks(Head(order), files, dend, dsize, chunk)
         \o ChunkTable(Tail(order), files, dend, dsize, chunk)

\* write_archive_md5s 374-382
RECURSIVE write_archive_md5s(_)
write_archive_md5s(table) ==
    IF table = <<>> THEN <<>>
    ELSE write_u32(Head(table).archive_index) \o write_u32(Head(table).offset)
         \o write_u32(Head(table).size) \o Head(table).md5
         \o write_archive_md5s(Tail(table))

(***************************************************************************)
(* std::io::BufWriter over the dir file, as pack 834 creates it: `file` is *)
(* what a second handle on the same file reads, `buf` the bytes accepted   *)
(* but not yet written, `pos` the file position they will be written at.   *)
(* The buffer is taken as large as the finalization needs; a smaller one   *)
(* only writes earlier.                                                    *)
(***************************************************************************)
BufWriterNew(file, pos) == [file |-> file, pos |-> pos, buf |-> << >>]

\* BufWriter::flush_buf
FlushBuf(w) ==
    [file |-> IF w.buf = << >> THEN w.file ELSE WriteAt(w.file, w.pos, w.buf),
     pos  |-> w.pos + Len(w.buf),
     buf  |-> << >>]

\* Write::write_all on a BufWriter
WriteAll(w, data) == [w EXCEPT !.buf = @ \o data]

\* Write::flush on a BufWriter
Flush(w) == FlushBuf(w)

\* Seek::seek(SeekFrom::Start(off)) on a BufWriter: flushes, then seeks
SeekTo(w, off) == [FlushBuf(w) EXCEPT !.pos = off]

\* a mutation of write_sizes: two of the sizes change places
write_sizes_swapped(dirwriter, data_size, archive_md5_size, other_md5_size, signature_size) ==
    WriteAll(SeekTo(dirwriter, V1_HEADER_SIZE),
             write_u32(data_size) \o write_u32(other_md5_size)
             \o write_u32(archive_md5_size) \o write_u32(signature_size))

\* write_sizes 362-372
write_sizes(dirwriter, data_size, archive_md5_size, other_md5_size, signature_size) ==
    WriteAll(SeekTo(dirwriter, V1_HEADER_SIZE),
             write_u32(data_size) \o write_u32(archive_md5_size)
             \o write_u32(other_md5_size) \o write_u32(signature_size))

\* calculate_md5 384-406 (the read is within the file in every call of pack)
calculate_md5(bytes, offset, size) == Md5(Slice(bytes, offset, size))

OTHER_MD5_SIZE == 16 * 3

\* a mutation of FinalDir: the digest of everything is read before the
\* size quadruple is flushed
FinalDirUnflushed(dir, table, isize, dend, dsize) ==
    LET tbytes   == write_archive_md5s(table)
        archive_md5_size == AsU32(Len(tbytes))
        w1       == Flush(WriteAll(SeekTo(BufWriterNew(dir, Len(dir)), dend), tbytes))
        index_md5        == calculate_md5(w1.file, V2_HEADER_SIZE, isize)
        archive_md5s_md5 == calculate_md5(w1.file, dend, archive_md5_size)
        w2       == WriteAll(WriteAll(w1, index_md5), archive_md5s_md5)
        w3       == write_sizes(w2, DataSize(dend, dsize), archive_md5_size, OTHER_MD5_SIZE, 0)
        everything_md5 == calculate_md5(w3.file, 0, dend + archive_md5_size + 16 * 2)
        w4       == Flush(w3)
        w5       == WriteAll(SeekTo(w4, dend + archive_md5_size + 16 * 2), everything_md5)
    IN  FlushBuf(w5).file

\* pack 834-906: the dir file after the V2 sections are written; the
\* writer is dropped, and so flushed, when pack returns
FinalDir(dir, table, isize, dend, dsize) ==
    LET tbytes   == write_archive_md5s(table)
        archive_md5_size == AsU32(Len(tbytes))
        \* 834-842; write_archive_md5s ends with a flush (381)
        w1       == Flush(WriteAll(SeekTo(BufWriterNew(dir, Len(dir)), dend), tbytes))
        \* 848, 857: read through the second handle
        index_md5        == calculate_md5(w1.file, V2_HEADER_SIZE, isize)
        archive_md5s_md5 == calculate_md5(w1.file, dend, archive_md5_size)
        \* 866-872
        w2       == WriteAll(WriteAll(w1, index_md5), archive_md5s_md5)
        \* 878-886
        w3       == Flush(write_sizes(w2, DataSize(dend, dsize), archive_md5_size,
                                      OTHER_MD5_SIZE, 0))
        \* 890
        everything_md5 == calculate_md5(w3.file, 0, dend + archive_md5_size + 16 * 2)
        \* 899-906
        w4       == WriteAll(SeekTo(w3, dend + archive_md5_size + 16 * 2), everything_md5)
    IN  FlushBuf(w4).file

\* pack 722-933
Finalize ==
    /\ pc = "archives_written"
    /\ IF options.version < 2
       THEN /\ pc' = "packed"
            /\ UNCHANGED <<error, disk, archive_md5s>>
       ELSE \E order \in Perms(ArchiveKeys(entries)), checked \in BOOLEAN :
              LET bad(a) == \/ FileTooBig(a, disk)
                            \/ ChunkEof(a, disk, data_end_offset, dir_size)
                  over(a) == ChunkOffsetOverflows(a, disk, data_end_offset, dir_size,
                                                  options.md5_chunk_size)
                  table  == ChunkTable(order, disk, data_end_offset, dir_size,
                                       options.md5_chunk_size)
              IN  /\ checked => \E a \in ArchiveKeys(entries) : over(a)
                  /\ IF \E a \in ArchiveKeys(entries) : bad(a)
                     THEN /\ pc' = "failed"
                          /\ error' = "io error: md5 pass"
                          /\ UNCHANGED <<disk, archive_md5s>>
                     ELSE IF checked
                     THEN /\ pc' = "failed"
                          /\ error' = "panic: attempt to add with overflow"
                          /\ UNCHANGED <<disk, archive_md5s>>
                     ELSE IF ARCHIVE_MD5_SIZE * Len(table) > U32_MAX
                     THEN /\ pc' = "failed"
                          /\ error' = "MD5 section is too big"
                          /\ UNCHANGED <<disk, archive_md5s>>
                     ELSE /\ pc' = "packed"
                          /\ archive_md5s' = table
                          /\ disk' = [disk EXCEPT ![DIR_INDEX] =
                                        FinalDir(disk[DIR_INDEX], table, index_size,
                                                 data_end_offset, dir_size)]
                          /\ UNCHANGED error
    /\ UNCHANGED <<mountVars, toolVars, packIn, entries, exts, layoutVars, pkg, unpacked, report>>

(***************************************************************************)
(* package.rs, Package::from_file (146-340) with io.rs read_str (23-33)    *)
(* and read_file (35-65).  Positions are 0-based byte offsets.             *)
(***************************************************************************)
read_u16(bytes, pos) == bytes[pos + 1] + 256 * bytes[pos + 2]

read_u32(bytes, pos) ==
    bytes[pos + 1] + 256 * bytes[pos + 2] + 65536 * bytes[pos + 3] + 16777216 * bytes[pos + 4]

\* read_exact of n bytes at pos succeeds
HasBytes(bytes, pos, n) == pos + n <= Len(bytes)

\* the 1-based index of the first 0 byte at index i or later, 0 when there is none
RECURSIVE FindZero(_, _)
FindZero(bytes, i) ==
    IF i > Len(bytes) THEN 0
    ELSE IF bytes[i] = 0 THEN i
    ELSE FindZero(bytes, i + 1)

\* std::str::from_utf8 on the names of the model, which are ASCII
IsUtf8(str) == \A i \in DOMAIN str : str[i] < 128

\* read_str 23-33
read_str(bytes, pos) ==
    LET z == FindZero(bytes, pos + 1)
    IN  IF z = 0 THEN [err |-> "unexpected eof", str |-> <<>>, pos |-> pos]
        ELSE IF ~IsUtf8(Slice(bytes, pos, z - 1 - pos))
        THEN [err |-> "invalid utf-8", str |-> <<>>, pos |-> pos]
        ELSE [err |-> "", str |-> Slice(bytes, pos, z - 1 - pos), pos |-> z]

\* read_file 35-65.  `offset += data_offset` is a u32 addition: with overflow
\* checks it panics, without them it wraps.
read_file(bytes, pos, index, data_offset, checked) ==
    IF ~HasBytes(bytes, pos, EntryRecordSize)
    THEN [err |-> "unexpected eof", pos |-> pos, file |-> << >>]
    ELSE LET crc32_        == read_u32(bytes, pos)
             inline_size   == read_u16(bytes, pos + 4)
             archive_index == read_u16(bytes, pos + 6)
             offset        == read_u32(bytes, pos + 8)
             size          == read_u32(bytes, pos + 12)
             terminator    == read_u16(bytes, pos + 16)
             sum           == IF archive_index = DIR_INDEX THEN offset + data_offset ELSE offset
         IN  IF sum > U32_MAX /\ checked
             THEN [err |-> "panic: attempt to add with overflow", pos |-> pos, file |-> << >>]
             ELSE IF terminator # TERMINATOR
             THEN [err |-> "illegal terminator", pos |-> pos, file |-> << >>]
             ELSE IF ~HasBytes(bytes, pos + EntryRecordSize, inline_size)
             THEN [err |-> "unexpected eof", pos |-> pos, file |-> << >>]
             ELSE [err |-> "", pos |-> pos + EntryRecordSize + inline_size,
                   file |-> [ index         |-> index,
                              crc32         |-> crc32_,
                              inline_size   |-> inline_size,
                              archive_index |-> archive_index,
                              offset        |-> AsU32(sum),
                              size          |-> size,
                              preload       |-> Slice(bytes, pos + EntryRecordSize, inline_size) ]]

\* p lies below the directory d
IsBelow(p, d) == Len(p) > Len(d) /\ SubSeq(p, 1, Len(d)) = d /\ p[Len(d) + 1] = 47

\* the directory paths mkpath walks for dirname
PathPrefixes(dirname) ==
    LET comps == split_path(dirname)
    IN  { JoinPath(SubSeq(comps, 1, k)) : k \in 1..Len(comps) }

\* mkpath 84-105: fails when a component on the way is a file
MkpathFails(files, dirname) == \E d \in PathPrefixes(dirname) : d \in DOMAIN files

\* children.insert(name, Entry::File(entry)) (233): an entry of that name,
\* with everything below it, is replaced
InsertFile(tree, path, file) ==
    LET keep == { q \in DOMAIN tree.files : q # path /\ ~IsBelow(q, path) }
    IN  [ files |-> [q \in keep \cup {path} |-> IF q = path THEN file ELSE tree.files[q]],
          dirs  |-> { d \in tree.dirs : d # path /\ ~IsBelow(d, path) } ]

\* from_file 198-236: the three nested loops, level 0 reading an extension,
\* level 1 a directory, level 2 a file name.  st is [err, pos, index, tree].
RECURSIVE ParseIndex(_, _, _, _, _, _, _)
ParseIndex(bytes, level, ext, dirname, data_offset, checked, st) ==
    LET r == read_str(bytes, st.pos) IN
    IF r.err # "" THEN [st EXCEPT !.err = r.err]
    ELSE IF r.str = <<>>
    THEN IF level = 0 THEN [st EXCEPT !.pos = r.pos]
         ELSE ParseIndex(bytes, level - 1, ext, dirname, data_offset, checked,
                         [st EXCEPT !.pos = r.pos])
    ELSE IF level = 0
    THEN ParseIndex(bytes, 1, r.str, dirname, data_offset, checked, [st EXCEPT !.pos = r.pos])
    ELSE IF level = 1
    THEN IF MkpathFails(st.tree.files, r.str)
         THEN [st EXCEPT !.err = "entry not a dir"]
         ELSE ParseIndex(bytes, 2, ext, r.str, data_offset, checked,
                         [st EXCEPT !.pos = r.pos,
                                    !.tree.dirs = @ \cup PathPrefixes(r.str)])
    ELSE LET f    == read_file(bytes, r.pos, st.index, data_offset, checked)
             path == JoinPath(split_path(dirname) \o <<r.str \o <<46>> \o ext>>)
         IN  IF f.err # "" THEN [st EXCEPT !.err = f.err]
             ELSE ParseIndex(bytes, 2, ext, dirname, data_offset, checked,
                             [ err |-> "", pos |-> f.pos, index |-> st.index + 1,
                               tree |-> InsertFile(st.tree, path, f.file) ])

\* from_file 243-266: the records of the archive MD5 section at pos
ReadArchiveMd5s(bytes, pos, archive_md5_size) ==
    [i \in 1..(archive_md5_size \div ARCHIVE_MD5_SIZE) |->
        [ archive_index |-> read_u32(bytes, pos + (i - 1) * ARCHIVE_MD5_SIZE),
          offset        |-> read_u32(bytes, pos + (i - 1) * ARCHIVE_MD5_SIZE + 4),
          size          |-> read_u32(bytes, pos + (i - 1) * ARCHIVE_MD5_SIZE + 8),
          md5           |-> Slice(bytes, pos + (i - 1) * ARCHIVE_MD5_SIZE + 12, 16) ]]

\* from_file 268-271: the stable sort by (archive_index, offset)
RECURSIVE SortMd5s(_)
SortMd5s(table) ==
    IF table = <<>> THEN <<>>
    ELSE LET less(a, b) == \/ a.archive_index < b.archive_index
                           \/ a.archive_index = b.archive_index /\ a.offset < b.offset
             m == CHOOSE i \in DOMAIN table :
                     /\ \A j \in DOMAIN table : ~less(table[j], table[i])
                     /\ \A j \in 1..(i - 1) : less(table[i], table[j]) \/ less(table[j], table[i])
         IN  <<table[m]>> \o SortMd5s([k \in 1..(Len(table) - 1) |->
                                         IF k < m THEN table[k] ELSE table[k + 1]])

NoPackage == [err |-> "not read"]

\* from_file 146-340 on the bytes of the dir file.  The files the model reads
\* carry signature_size 0, so 299-319 read nothing.
from_file(bytes, checked) ==
    IF ~HasBytes(bytes, 0, 4) THEN [err |-> "unexpected eof"]
    ELSE IF Slice(bytes, 0, 4) # VPK_MAGIC THEN [err |-> "illegal magic"]
    ELSE IF ~HasBytes(bytes, 4, 4) THEN [err |-> "unexpected eof"]
    ELSE IF read_u32(bytes, 4) = 0 \/ read_u32(bytes, 4) > 2 THEN [err |-> "unsupported version"]
    ELSE IF ~HasBytes(bytes, 8, IF read_u32(bytes, 4) < 2 THEN 4 ELSE 4 + 16)
    THEN [err |-> "unexpected eof"]
    ELSE LET version     == read_u32(bytes, 4)
             isize       == read_u32(bytes, 8)
             header_size == IF version < 2 THEN V1_HEADER_SIZE ELSE V2_HEADER_SIZE
             data_size        == IF version < 2 THEN 0 ELSE read_u32(bytes, 12)
             archive_md5_size == IF version < 2 THEN 0 ELSE read_u32(bytes, 16)
             other_md5_size   == IF version < 2 THEN 0 ELSE read_u32(bytes, 20)
             signature_size   == IF version < 2 THEN 0 ELSE read_u32(bytes, 24)
             data_offset == header_size + isize
             ix == ParseIndex(bytes, 0, <<>>, <<>>, data_offset, checked,
                              [ err |-> "", pos |-> header_size, index |-> 0,
                                tree |-> [files |-> << >>, dirs |-> {}] ])
             md5pos   == ix.pos + data_size
             nrec     == archive_md5_size \div ARCHIVE_MD5_SIZE
             otherpos == md5pos + archive_md5_size
             nother   == Min(other_md5_size \div 16, 3)
             other(k) == IF nother >= k THEN Slice(bytes, otherpos + 16 * (k - 1), 16)
                         ELSE ZeroMd5
         IN  IF ix.err # "" THEN [err |-> ix.err]
             ELSE IF version > 1 /\ ~HasBytes(bytes, md5pos, nrec * ARCHIVE_MD5_SIZE)
             THEN [err |-> "unexpected eof"]
             ELSE IF version > 1 /\ ~HasBytes(bytes, otherpos, 16 * nother)
             THEN [err |-> "unexpected eof"]
             ELSE [ err              |-> "",
                    version          |-> version,
                    data_offset      |-> data_offset,
                    index_size       |-> isize,
                    data_size        |-> data_size,
                    archive_md5_size |-> archive_md5_size,
                    other_md5_size   |-> other_md5_size,
                    signature_size   |-> signature_size,
                    entries          |-> ix.tree.files,
                    dirs             |-> ix.tree.dirs,
                    archive_md5s     |-> IF version > 1
                                         THEN SortMd5s(SelectSeq(
                                                ReadArchiveMd5s(bytes, md5pos, archive_md5_size),
                                                LAMBDA m : m.archive_index <= U16_MAX))
                                         ELSE <<>>,
                    index_md5        |-> IF version > 1 THEN other(1) ELSE ZeroMd5,
                    archive_md5s_md5 |-> IF version > 1 THEN other(2) ELSE ZeroMd5,
                    everything_md5   |-> IF version > 1 THEN other(3) ELSE ZeroMd5 ]

\* Package::from_path 132-144
FromPath ==
    /\ pc \in {"packed", "tampered", "given"}
    /\ pkg = NoPackage
    /\ DIR_INDEX \in DOMAIN disk
    /\ \E checked \in BOOLEAN :
         /\ checked => from_file(disk[DIR_INDEX], TRUE).err = "panic: attempt to add with overflow"
         /\ pkg' = from_file(disk[DIR_INDEX], checked)
    /\ UNCHANGED <<mountVars, toolVars, pc, error, packIn, entries, exts, layoutVars, disk, archive_md5s, unpacked, report>>

(***************************************************************************)
(* archive_cache.rs (87-161), unpack.rs (55-122), check.rs (55-384).       *)
(***************************************************************************)
\* ArchiveCache::get 87-106 and the seek + read_exact of n bytes at off
ReadOk(files, a, off, n) == a \in DOMAIN files /\ off + n <= Len(files[a])

\* ArchiveCache::read_file_data 113-144: the bytes handed to the callback;
\* on a failed read the preload has been handed over already
read_file_data(files, f) ==
    IF f.size = 0 THEN [err |-> FALSE, data |-> f.preload]
    ELSE IF ~ReadOk(files, f.archive_index, f.offset, f.size)
    THEN [err |-> TRUE, data |-> f.preload]
    ELSE [err |-> FALSE, data |-> f.preload \o Slice(files[f.archive_index], f.offset, f.size)]

\* unpack 65-77: the path below outdir a file is written to
OutPath(path, f, dirname_from_archive) ==
    (IF dirname_from_archive
     THEN (IF f.archive_index = DIR_INDEX THEN << <<100, 105, 114>> >>
           ELSE << Fmt03(f.archive_index) >>)
     ELSE <<>>)
    \o split_path(path)

\* sort.rs PHYSICAL_ORDER: a precedes b by (archive_index, offset)
PhysLess(a, b) ==
    \/ a.archive_index < b.archive_index
    \/ a.archive_index = b.archive_index /\ a.offset < b.offset

\* unpack 87-119: the file at path fails (a read error, or with options.check
\* a CRC-32 mismatch)
UnpackFails(files, f, check) ==
    LET r == read_file_data(files, f)
    IN  r.err \/ (check /\ Crc32(r.data) # f.crc32)

\* unpack 55-122.  The files are written in physical order; the first one that
\* fails ends the run, after the files before it and its own bytes are written.
Unpack ==
    /\ pc \in {"packed", "tampered"}
    /\ pkg # NoPackage /\ pkg.err = ""
    /\ unpacked.status = "none" /\ report.status = "none"
    /\ \E check \in BOOLEAN, dirname_from_archive \in BOOLEAN :
         LET ents    == pkg.entries
             failing == { q \in DOMAIN ents : UnpackFails(disk, ents[q], check) }
             Out(W)  == { [path |-> OutPath(q, ents[q], dirname_from_archive),
                           data |-> read_file_data(disk, ents[q]).data] : q \in W }
         IN  IF failing = {}
             THEN unpacked' = [status |-> "ok", dirname_from_archive |-> dirname_from_archive,
                               files |-> Out(DOMAIN ents)]
             ELSE \E first \in failing :
                    /\ \A q \in failing : ~PhysLess(ents[q], ents[first])
                    /\ \E ties \in SUBSET { q \in DOMAIN ents \ failing :
                                               /\ ~PhysLess(ents[q], ents[first])
                                               /\ ~PhysLess(ents[first], ents[q]) } :
                         unpacked' = [status |-> "failed",
                                      dirname_from_archive |-> dirname_from_archive,
                                      files |-> Out({ q \in DOMAIN ents :
                                                       PhysLess(ents[q], ents[first]) }
                                                    \cup ties \cup {first})]
    /\ UNCHANGED <<mountVars, toolVars, pc, error, packIn, entries, exts, layoutVars, disk, archive_md5s, pkg, report>>

\* Package::index_md5 / archive_md5s_md5 / unknown_md5 (package.rs 387-412):
\* the k-th standalone MD5 is reported present
HasOtherMd5(package, k) == package.other_md5_size >= ARCHIVE_MD5_SIZE * k

\* check_range 55-105: [err, valid]
check_range(bytes, offset, size, expected) ==
    IF offset + size > Len(bytes) THEN [err |-> TRUE, valid |-> FALSE]
    ELSE [err |-> FALSE, valid |-> Md5(Slice(bytes, offset, size)) = expected]

\* check 137-214: the file is counted as failed
CheckFileFails(files, f, alignment) ==
    LET r == read_file_data(files, f)
    IN  \/ r.err
        \/ Crc32(r.data) # f.crc32
        \/ (alignment > 0 /\ f.offset % alignment # 0)

\* check 227-298: the three standalone MD5 checks, as [present, range result]
OtherChecks(package, files) ==
    << [ present |-> HasOtherMd5(package, 1),
         r |-> check_range(files[DIR_INDEX], V2_HEADER_SIZE, package.index_size,
                           package.index_md5) ],
       [ present |-> HasOtherMd5(package, 2),
         r |-> check_range(files[DIR_INDEX], package.data_offset + package.data_size,
                           package.archive_md5_size, package.archive_md5s_md5) ],
       [ present |-> HasOtherMd5(package, 3),
         r |-> check_range(files[DIR_INDEX], 0,
                           package.data_offset + package.data_size
                           + package.archive_md5_size + 16 * 2,
                           package.everything_md5) ] >>

\* check 306-374: one record of the chunk table, as [err, valid]
CheckChunk(files, item) ==
    IF ~ReadOk(files, item.archive_index, item.offset, item.size)
    THEN [err |-> TRUE, valid |-> FALSE]
    ELSE [err |-> FALSE,
          valid |-> Md5(Slice(files[item.archive_index], item.offset, item.size)) = item.md5]

\* check 107-384 without stop_on_error; alignment 0 stands for None
check(package, files, alignment) ==
    LET failed_files == Cardinality({ q \in DOMAIN package.entries :
                                        CheckFileFails(files, package.entries[q], alignment) })
        others == OtherChecks(package, files)
        chunks == [i \in DOMAIN package.archive_md5s |-> CheckChunk(files, package.archive_md5s[i])]
        ioerr  == /\ package.version > 1
                  /\ \/ DIR_INDEX \notin DOMAIN files
                     \/ \E k \in 1..3 : others[k].present /\ others[k].r.err
                     \/ \E i \in DOMAIN chunks : chunks[i].err
        failed_md5 == IF package.version > 1 /\ ~ioerr
                      THEN Cardinality({ k \in 1..3 : others[k].present /\ ~others[k].r.valid })
                           + Cardinality({ i \in DOMAIN chunks : ~chunks[i].valid })
                      ELSE 0
    IN  [ status |-> IF ioerr THEN "error"
                     ELSE IF failed_files = 0 /\ failed_md5 = 0 THEN "ok"
                     ELSE "failed",
          alignment    |-> alignment,
          failed_files |-> failed_files,
          failed_md5   |-> failed_md5 ]

CheckAlignments == {0} \cup (Alignments \ {1})

Check ==
    /\ pc \in {"packed", "tampered"}
    /\ pkg # NoPackage /\ pkg.err = ""
    /\ unpacked.status = "none" /\ report.status = "none"
    /\ \E alignment \in CheckAlignments : report' = check(pkg, disk, alignment)
    /\ UNCHANGED <<mountVars, toolVars, pc, error, packIn, entries, exts, layoutVars, disk, archive_md5s, pkg, unpacked>>

(***************************************************************************)
(* The environment: one byte of a packed V2 dir file or of an archive is   *)
(* overwritten before the package is read.                                 *)
(***************************************************************************)
\* the places that are overwritten, as <<archive, 0-based byte offset>>
TamperPlaces ==
    LET tbl == data_end_offset
        oth == data_end_offset + ARCHIVE_MD5_SIZE * Len(archive_md5s)
    IN  { <<DIR_INDEX, oth>>, <<DIR_INDEX, oth + 16>>, <<DIR_INDEX, oth + 32>> }
        \cup (IF archive_md5s # <<>> THEN { <<DIR_INDEX, tbl + 12>> } ELSE {})
        \cup { <<a, 0>> : a \in { b \in DOMAIN disk : b = 0 /\ Len(disk[b]) > 0 } }

Tamper ==
    /\ pc = "packed"
    /\ options.version = 2
    /\ pkg = NoPackage
    /\ \E place \in TamperPlaces :
         /\ place[2] < Len(disk[place[1]])
         /\ disk' = [disk EXCEPT ![place[1]][place[2] + 1] = (@ + 1) % 256]
    /\ pc' = "tampered"
    /\ UNCHANGED <<mountVars, toolVars, error, packIn, entries, exts, layoutVars, archive_md5s, pkg, unpacked, report>>

Next ==
    \/ Gather
    \/ Layout
    \/ WriteDir
    \/ WriteArchives
    \/ Finalize
    \/ FromPath
    \/ Unpack
    \/ Check
    \/ Tamper

Spec == Init /\ [][Next]_vars

\* pack alone
NextPack ==
    \/ Gather
    \/ Layout
    \/ WriteDir
    \/ WriteArchives
    \/ Finalize

SpecPack == Init /\ [][NextPack]_vars

(***************************************************************************)
(* mount.rs, VPKFS::read (446-510): reads of one file of a mounted         *)
(* package.  The entry may hold a preload and archive bytes at once, as    *)
(* from_file reads them from any package.                                  *)
(***************************************************************************)
MaxInline == 2

MaxBody == 3

MaxEntryOffset == 2

\* the archive the entry points into
MountArchive == Pattern(40, MaxEntryOffset + MaxBody + 1)

MountFiles ==
    { [ ino |-> 2, inline_size |-> P, size |-> S, offset |-> off,
        preload |-> Pattern(20, P), archive |-> MountArchive ] :
      P \in 0..MaxInline, S \in 0..MaxBody, off \in 0..MaxEntryOffset }

\* the offsets and sizes of the read requests
ReadOffsets == (-1)..(MaxInline + MaxBody + 1)

ReadSizes == 0..(MaxInline + MaxBody + 1)

\* read_exact_at(buffer of n bytes, pos) on the archive
read_exact_at(archive, pos, n) ==
    IF pos + n > Len(archive) THEN [kind |-> "error", data |-> <<>>]
    ELSE [kind |-> "data", data |-> Slice(archive, pos, n)]

\* read 446-510 for a file inode.  `file.offset as u64 + offset - inline_size`
\* (476) is a u64 subtraction: when it underflows it panics with overflow
\* checks and, without them, wraps to a position past any archive.
read(file, offset, size, checked) ==
    LET inline_size == file.inline_size IN
    IF offset < 0 THEN [kind |-> "error", data |-> <<>>]
    ELSE IF offset < inline_size
    THEN LET end_offset == offset + size IN
         IF end_offset <= inline_size
         THEN [kind |-> "data", data |-> Slice(file.preload, offset, end_offset - offset)]
         ELSE IF file.size = 0
         THEN [kind |-> "data", data |-> Slice(file.preload, offset, inline_size - offset)]
         ELSE LET body_size == Min(end_offset - inline_size, file.size)
                  head      == Slice(file.preload, offset, inline_size - offset)
                  pos       == file.offset + offset - inline_size
              IN  IF pos < 0
                  THEN (IF checked THEN [kind |-> "panic", data |-> <<>>]
                        ELSE [kind |-> "error", data |-> <<>>])
                  ELSE LET r == read_exact_at(file.archive, pos, body_size)
                       IN  IF r.kind = "error" THEN r
                           ELSE [kind |-> "data", data |-> head \o r.data]
    ELSE LET off == offset - inline_size IN
         IF off >= file.size THEN [kind |-> "data", data |-> <<>>]
         ELSE LET actual_size == IF off + size > file.size THEN file.size - off ELSE size
              IN  read_exact_at(file.archive, file.offset + off, actual_size)

InitMount ==
    /\ pc = "mounted"
    /\ error = ""
    /\ indir = {}
    /\ options = [ version |-> 1, md5_chunk_size |-> 64, alignment |-> 1, max_inline_size |-> 2,
                   strategy |-> [kind |-> "MaxArchiveSize", max_size |-> I32_MAX] ]
    /\ entries = << >>
    /\ exts = {}
    /\ list = << >>
    /\ index_size = 0
    /\ dir_size = 0
    /\ data_end_offset = 0
    /\ disk = << >>
    /\ archive_md5s = << >>
    /\ pkg = [err |-> "not read"]
    /\ unpacked = [status |-> "none"]
    /\ report = [status |-> "none"]
    /\ inode \in MountFiles
    /\ reply = [kind |-> "none"]
    /\ walk = [to |-> "none"]
    /\ records = << >>
    /\ lookup = [kind |-> "none"]
    /\ sorting = [stage |-> "none"]
    /\ cache = [status |-> "none"]

MountRead ==
    /\ pc = "mounted"
    /\ \E offset \in ReadOffsets, size \in ReadSizes, checked \in BOOLEAN :
         /\ checked => read(inode, offset, size, TRUE).kind = "panic"
         /\ reply' = [ kind |-> read(inode, offset, size, checked).kind,
                       data |-> read(inode, offset, size, checked).data,
                       offset |-> offset, size |-> size ]
    /\ UNCHANGED <<pc, error, indir, options, entries, exts, list, index_size, dir_size,
                   data_end_offset, disk, archive_md5s, pkg, unpacked, report, inode, toolVars>>

NextMount == MountRead

SpecMount == InitMount /\ [][NextMount]_vars

(***************************************************************************)
(* Properties of pack.                                                     *)
(***************************************************************************)
\* the canonical order of the specification: by extension, then directory,
\* then name, each byte-lexicographic
CanonLess(p, q) ==
    LET e == StrCmp(ItemExt(p), ItemExt(q))
        d == StrCmp(ItemDir(p), ItemDir(q))
        n == StrCmp(ItemName(p), ItemName(q))
    IN  e < 0 \/ (e = 0 /\ (d < 0 \/ (d = 0 /\ n < 0)))

MaxArchive == options.strategy.kind = "MaxArchiveSize"

\* the paths of the entries that hold bytes in archive a
PayloadIn(a) == { p \in DOMAIN entries : entries[p].archive_index = a /\ entries[p].size > 0 }

NumberedArchives == DOMAIN disk \ {DIR_INDEX}

\* C3: in the index emitted by pack, read back in file order, the entries
\* appear in ascending (extension, directory, name) order: extensions
\* ascending, directories ascending within an extension, names ascending
\* within an (extension, directory) group.
C3_CanonicalIndexOrder ==
    (pc = "packed" /\ options.version >= 1) =>
        LET pk == from_file(disk[DIR_INDEX], FALSE)
        IN  /\ pk.err = ""
            /\ \A p, q \in DOMAIN pk.entries :
                  pk.entries[p].index < pk.entries[q].index => CanonLess(p, q)

\* C4: after pack, of two entries that hold bytes in the same archive the one
\* that is first in canonical order ends before the other begins.
C4_OffsetMonotonic ==
    pc = "packed" =>
        \A p, q \in DOMAIN entries :
            ( /\ entries[p].archive_index = entries[q].archive_index
              /\ entries[p].size > 0 /\ entries[q].size > 0
              /\ CanonLess(p, q) )
            => entries[p].offset + entries[p].size <= entries[q].offset

\* C5: after pack with alignment A, under both strategies, every entry that
\* holds archive bytes has an offset that is a multiple of A.
C5_Aligned ==
    pc = "packed" =>
        \A p \in DOMAIN entries :
            entries[p].size > 0 => entries[p].offset % options.alignment = 0

\* the largest size of an archived file
LargestSize ==
    LET sizes == { entries[p].size : p \in DOMAIN entries }
    IN  IF sizes = {} THEN 0 ELSE CHOOSE m \in sizes : \A n \in sizes : n <= m

ChunksOf(a) == { i \in DOMAIN archive_md5s : archive_md5s[i].archive_index = a }

\* the chunk ranges of archive a are disjoint and contiguous, their union is
\* [lo, hi), and each is md5_chunk_size long except the last, which is
\* 1..md5_chunk_size long
Covers(a, lo, hi) ==
    /\ \A i \in ChunksOf(a) :
          /\ archive_md5s[i].size >= 1
          /\ archive_md5s[i].size <= options.md5_chunk_size
          /\ lo <= archive_md5s[i].offset
          /\ archive_md5s[i].offset + archive_md5s[i].size <= hi
          /\ (archive_md5s[i].offset + archive_md5s[i].size < hi
                => archive_md5s[i].size = options.md5_chunk_size)
    /\ \A x \in lo..(hi - 1) :
          Cardinality({ i \in ChunksOf(a) :
                          /\ archive_md5s[i].offset <= x
                          /\ x < archive_md5s[i].offset + archive_md5s[i].size }) = 1

RegionStart(a) ==
    IF a = DIR_INDEX THEN V2_HEADER_SIZE + read_u32(disk[DIR_INDEX], 8) ELSE 0

RegionSize(a) ==
    IF a = DIR_INDEX THEN read_u32(disk[DIR_INDEX], 12) ELSE Len(disk[a])

HeaderAsSpecified ==
    LET dir == disk[DIR_INDEX]
    IN  /\ Len(dir) >= 12
        /\ Slice(dir, 0, 4) = <<52, 18, 170, 85>>
        /\ Slice(dir, 4, 4) = <<options.version, 0, 0, 0>>
        /\ read_u32(dir, 8) = dir_size - HeaderSize(options.version)
        /\ options.version = 2 =>
              /\ Len(dir) >= 28
              /\ read_u32(dir, 12) = DataSize(data_end_offset, dir_size)
              /\ read_u32(dir, 16) = 28 * Len(archive_md5s)
              /\ read_u32(dir, 20) = 48
              /\ read_u32(dir, 24) = 0

IsNameExt(name) == RFind(name, 46) > 1 /\ RFind(name, 46) < Len(name)

\* every regular file lies below a sub-directory and is named NAME.EXT
ValidTree(tree) ==
    \A f \in tree : Len(f.path) >= 2 /\ IsNameExt(f.path[Len(f.path)])

\* the files of the input directory, as unpack would lay them out
InputFiles == { [path |-> f.path, data |-> f.data] : f \in indir }

\* every entry of the package that was read has the CRC-32 of its preload
\* followed by its archive range
CrcsMatch ==
    \A p \in DOMAIN pkg.entries :
        /\ ~read_file_data(disk, pkg.entries[p]).err
        /\ Crc32(read_file_data(disk, pkg.entries[p]).data) = pkg.entries[p].crc32

\* pack, from_path and unpack have reproduced the input
RoundTrip(dirname_from_archive) ==
    /\ pc # "failed"
    /\ (pc = "packed" /\ pkg # NoPackage) => (pkg.err = "" /\ CrcsMatch)
    /\ (pc = "packed" /\ unpacked.status # "none"
          /\ unpacked.dirname_from_archive = dirname_from_archive)
        => (unpacked.status = "ok" /\ unpacked.files = InputFiles)

ValidFor(tree, opts) ==
    /\ ValidTree(tree)
    /\ opts.strategy.kind = "ArchiveFromDirName" =>
          \A f \in tree : Len(f.path) >= 3 /\ FolderTarget(f.path[1]).scan
    /\ \A f, g \in Scanned(tree, opts) : f.rel = g.rel => f = g

\* C2: for every valid tree and every configuration with version 2 (either
\* strategy, alignment >= 1, md5 chunk size >= 1) pack succeeds, and check
\* on the package read back reports no failed file and no failed MD5.
C2_RoundTripV2 ==
    (options.version = 2 /\ ValidFor(indir, options))
    => /\ pc # "failed"
       /\ (pc = "packed" /\ pkg # NoPackage) => pkg.err = ""
       /\ (pc = "packed" /\ report.status # "none")
            => (report.status = "ok" /\ report.failed_files = 0 /\ report.failed_md5 = 0)

\* the region [offset, offset + size) of bytes has the MD5 md5
RegionMatches(files, a, offset, size, md5) ==
    /\ a \in DOMAIN files
    /\ offset + size <= Len(files[a])
    /\ Md5(Slice(files[a], offset, size)) = md5

\* what check has to find in order: the CRC-32 (and alignment) of every file,
\* as many standalone MD5s as other_md5_size holds, every chunk
AllMatch(package, files, alignment) ==
    /\ \A p \in DOMAIN package.entries :
          LET f == package.entries[p]
          IN  /\ f.size > 0 => ( /\ f.archive_index \in DOMAIN files
                                 /\ f.offset + f.size <= Len(files[f.archive_index]) )
              /\ Crc32(f.preload \o (IF f.size > 0
                                      THEN Slice(files[f.archive_index], f.offset, f.size)
                                      ELSE <<>>)) = f.crc32
              /\ alignment > 0 => f.offset % alignment = 0
    /\ package.version > 1 =>
          /\ package.other_md5_size >= 16 =>
                RegionMatches(files, DIR_INDEX, V2_HEADER_SIZE, package.index_size,
                              package.index_md5)
          /\ package.other_md5_size >= 32 =>
                RegionMatches(files, DIR_INDEX, package.data_offset + package.data_size,
                              package.archive_md5_size, package.archive_md5s_md5)
          /\ package.other_md5_size >= 48 =>
                RegionMatches(files, DIR_INDEX, 0,
                              package.data_offset + package.data_size
                              + package.archive_md5_size + 32,
                              package.everything_md5)
          /\ \A i \in DOMAIN package.archive_md5s :
                RegionMatches(files, package.archive_md5s[i].archive_index,
                              package.archive_md5s[i].offset,
                              package.archive_md5s[i].size,
                              package.archive_md5s[i].md5)

\* C10: check (without stop_on_error) succeeds exactly when every file's
\* CRC-32 matches (and its offset is aligned when an alignment is given),
\* every standalone MD5 that other_md5_size holds matches its region and
\* every chunk of the table matches its archive range.
C10_CheckIff ==
    report.status # "none" =>
        (report.status = "ok" <=> AllMatch(pkg, disk, report.alignment))

(***************************************************************************)
(* Properties of mount.                                                    *)
(***************************************************************************)
\* the logical payload of the inode: preload followed by
\* archive[offset, offset + size)
Payload(file) == file.preload \o Slice(file.archive, file.offset, file.size)

\* the window [o, o + n) of the payload, clipped to the payload
Window(file, o, n) ==
    LET total == Len(Payload(file))
        from  == Min(o, total)
        to    == Min(o + n, total)
    IN  Slice(Payload(file), from, to - from)

\* C9: for every entry (with a preload, archive bytes or both) and every
\* request (o >= 0, n) the read returns the bytes of preload followed by
\* archive[offset, offset + size) in the window [o, o + n) clipped to the
\* payload; a window at or beyond the end returns no bytes.
C9_ReadRange ==
    (reply.kind # "none" /\ reply.offset >= 0) =>
        (reply.kind = "data" /\ reply.data = Window(inode, reply.offset, reply.size))

(***************************************************************************)
(* Properties of the reader.                                               *)
(***************************************************************************)
\* the k-th standalone MD5 of a package
OtherMd5Field(package, k) ==
    IF k = 1 THEN package.index_md5
    ELSE IF k = 2 THEN package.archive_md5s_md5
    ELSE package.everything_md5

\* C11: for a V2 package whose other_md5_size is 0, 16, 32 or 48 the
\* accessors report exactly the first other_md5_size / 16 of index_md5,
\* archive_md5s_md5, everything_md5 as present, and the present ones hold
\* the bytes stored behind the archive MD5 section, in that order.
C11_Md5Presence ==
    (pkg # NoPackage /\ pkg.err = "" /\ pkg.version = 2
       /\ pkg.other_md5_size \in {0, 16, 32, 48}) =>
        /\ \A k \in 1..3 : HasOtherMd5(pkg, k) <=> (k <= pkg.other_md5_size \div 16)
        /\ \A k \in 1..3 :
             k <= pkg.other_md5_size \div 16 =>
               OtherMd5Field(pkg, k) =
                 Slice(disk[DIR_INDEX],
                       pkg.data_offset + pkg.data_size + pkg.archive_md5_size + 16 * (k - 1), 16)

(***************************************************************************)
(* The reader on a given dir file: a version 1 dir file whose index holds  *)
(* the given records, each in an extension and directory group of its own, *)
(* is read with Package::from_path and paths are resolved in the result.   *)
(***************************************************************************)
MaxRecords == 3

\* the (extension, directory, name) of the records: d/a.x, d/a.x/b.y, e/c.x
RecordKinds ==
    { [ext |-> <<120>>, dir |-> <<100>>, name |-> <<97>>],
      [ext |-> <<121>>, dir |-> <<100, 47, 97, 46, 120>>, name |-> <<98>>],
      [ext |-> <<120>>, dir |-> <<101>>, name |-> <<99>>] }

RecordLists == UNION { [1..n -> RecordKinds] : n \in 0..MaxRecords }

\* the path `dirname/name.ext` of a record
FullPath(rec) == JoinPath(split_path(rec.dir) \o <<rec.name \o <<46>> \o rec.ext>>)

\* the entry of the k-th record: its crc32 tells the records apart
RecordFile(k) ==
    [ index |-> 0, crc32 |-> k, inline_size |-> 0, archive_index |-> 0,
      offset |-> 0, size |-> 0, preload |-> <<>> ]

\* the index bytes of the records from the k-th on, and the final terminator
RECURSIVE RecordBytes(_, _)
RecordBytes(recs, k) ==
    IF k > Len(recs) THEN <<0>>
    ELSE write_str(recs[k].ext) \o write_str(recs[k].dir) \o write_str(recs[k].name)
         \o write_file(RecordFile(k), 0, FALSE).bytes \o <<0>> \o <<0>>
         \o RecordBytes(recs, k + 1)

GivenDirFile(recs) == HeaderBytes(1, Len(RecordBytes(recs, 1))) \o RecordBytes(recs, 1)

\* the paths that are resolved
QueryPaths ==
    { <<100>>,                                  \* d
      <<100, 47, 97, 46, 120>>,                 \* d/a.x
      <<100, 47, 97, 46, 120, 47, 98, 46, 121>>,  \* d/a.x/b.y
      <<100, 47, 97, 46, 120, 47, 113>>,        \* d/a.x/q
      <<101, 47, 99, 46, 120>>,                 \* e/c.x
      <<101, 47, 110>>,                         \* e/n
      <<110, 47, 110>> }                        \* n/n

\* Package::get 432-451: the walk over the components of path, the k-th next;
\* "file", "dir" or "none" (None)
RECURSIVE GetFrom(_, _, _)
GetFrom(package, comps, k) ==
    IF k > Len(comps) THEN "none"
    ELSE LET here == JoinPath(SubSeq(comps, 1, k))
         IN  IF here \in DOMAIN package.entries
             THEN IF k = Len(comps) THEN "file" ELSE "none"
             ELSE IF here \in package.dirs
             THEN IF k = Len(comps) THEN "dir" ELSE GetFrom(package, comps, k + 1)
             ELSE "none"

get(package, path) == GetFrom(package, split_path(path), 1)

\* Package::recursive_file_list_from 483-509 for one path: the error, or the
\* paths of the files that are listed
recursive_file_list_from(package, path) ==
    LET entry == get(package, path)
    IN  IF entry = "none" THEN [err |-> "no such entry", files |-> {}]
        ELSE IF entry = "dir"
        THEN [err |-> "", files |-> { q \in DOMAIN package.entries : IsBelow(q, path) }]
        ELSE [err |-> "", files |-> {path}]

InitRead ==
    /\ pc = "given"
    /\ error = ""
    /\ indir = {}
    /\ options = [ version |-> 1, md5_chunk_size |-> 64, alignment |-> 1, max_inline_size |-> 2,
                   strategy |-> [kind |-> "MaxArchiveSize", max_size |-> I32_MAX] ]
    /\ entries = << >>
    /\ exts = {}
    /\ list = << >>
    /\ index_size = 0
    /\ dir_size = 0
    /\ data_end_offset = 0
    /\ records \in RecordLists
    /\ disk = (DIR_INDEX :> GivenDirFile(records))
    /\ archive_md5s = << >>
    /\ pkg = [err |-> "not read"]
    /\ unpacked = [status |-> "none"]
    /\ report = [status |-> "none"]
    /\ inode = [ino |-> 0]
    /\ reply = [kind |-> "none"]
    /\ walk = [to |-> "none"]
    /\ lookup = [kind |-> "none"]
    /\ sorting = [stage |-> "none"]
    /\ cache = [status |-> "none"]

\* Package::get on the package that was read
Resolve ==
    /\ pkg # NoPackage /\ pkg.err = ""
    /\ \E path \in QueryPaths :
         lookup' = [kind |-> "get", path |-> path, entry |-> get(pkg, path)]
    /\ UNCHANGED <<mountVars, pc, error, packIn, entries, exts, layoutVars, disk, archive_md5s,
                   pkg, unpacked, report, walk, records, sorting, cache>>

\* Package::recursive_file_list_from on the package that was read
ListFrom ==
    /\ pkg # NoPackage /\ pkg.err = ""
    /\ \E path \in QueryPaths :
         lookup' = [kind |-> "list", path |-> path,
                    err   |-> recursive_file_list_from(pkg, path).err,
                    files |-> recursive_file_list_from(pkg, path).files]
    /\ UNCHANGED <<mountVars, pc, error, packIn, entries, exts, layoutVars, disk, archive_md5s,
                   pkg, unpacked, report, walk, records, sorting, cache>>

NextRead ==
    \/ FromPath
    \/ Resolve
    \/ ListFrom

SpecRead == InitRead /\ [][NextRead]_vars

\* a proper prefix of path names a file of the package
PrefixIsFile(package, path) ==
    \E k \in 1..(Len(split_path(path)) - 1) :
        JoinPath(SubSeq(split_path(path), 1, k)) \in DOMAIN package.entries

\* no entry of the package has this path
Missing(package, path) == path \notin DOMAIN package.entries /\ path \notin package.dirs

\* the directory of a later record lies at or below the path of an earlier one
DirBelowFile(recs) ==
    \E i, j \in DOMAIN recs :
        /\ i < j
        /\ \/ JoinPath(split_path(recs[j].dir)) = FullPath(recs[i])
           \/ IsBelow(JoinPath(split_path(recs[j].dir)), FullPath(recs[i]))

\* C12: resolving a path one of whose proper prefixes names a file yields
\* ENTRY_NOT_A_DIR, through lookup and through recursive_file_list_from; a
\* path with a missing component yields NO_SUCH_ENTRY (None from lookup);
\* and the parse of an index that places a directory at or below the path of
\* a file fails with ENTRY_NOT_A_DIR.
C12_PathErrors ==
    /\ (pc = "given" /\ pkg # NoPackage /\ DirBelowFile(records)) => pkg.err = "entry not a dir"
    /\ (lookup.kind = "list" /\ ~PrefixIsFile(pkg, lookup.path) /\ Missing(pkg, lookup.path))
          => lookup.err = "no such entry"
    /\ (lookup.kind = "get" /\ ~PrefixIsFile(pkg, lookup.path) /\ Missing(pkg, lookup.path))
          => lookup.entry = "none"
    /\ (lookup.kind = "list" /\ PrefixIsFile(pkg, lookup.path))
          => lookup.err = "entry not a dir"
    /\ (lookup.kind = "get" /\ PrefixIsFile(pkg, lookup.path))
          => lookup.entry = "entry not a dir"

\* the last record with the path p
LastRecord(recs, p) ==
    CHOOSE k \in DOMAIN recs :
        /\ FullPath(recs[k]) = p
        /\ \A j \in DOMAIN recs : FullPath(recs[j]) = p => j <= k

\* C18: an index with several records of the same full path is read without
\* error; after the parse the file paths of the tree are the distinct full
\* paths of the records, and each path carries the fields of the last record
\* that has it.
C18_LastRecordWins ==
    (pc = "given" /\ pkg # NoPackage) =>
        /\ (~DirBelowFile(records)) => pkg.err = ""
        /\ pkg.err = "" =>
             /\ DOMAIN pkg.entries = { FullPath(records[k]) : k \in DOMAIN records }
             /\ \A p \in DOMAIN pkg.entries :
                  /\ pkg.entries[p].crc32 = RecordFile(LastRecord(records, p)).crc32
                  /\ pkg.entries[p].index = LastRecord(records, p) - 1

(***************************************************************************)
(* pack on trees that exercise the checks of the gather pass: file names,  *)
(* files at the root, and the folder names of ArchiveFromDirName.          *)
(***************************************************************************)
MaxNamedFiles == 2

NameCandidates ==
    { \* dir/d/n
      [path |-> <<<<100, 105, 114>>, <<100>>, <<110>>>>, data |-> Pattern(21, 3)],
      \* dir/d/.x
      [path |-> <<<<100, 105, 114>>, <<100>>, <<46, 120>>>>, data |-> Pattern(22, 3)],
      \* dir/d/a.
      [path |-> <<<<100, 105, 114>>, <<100>>, <<97, 46>>>>, data |-> Pattern(23, 3)],
      \* dir/d/a.b.x
      [path |-> <<<<100, 105, 114>>, <<100>>, <<97, 46, 98, 46, 120>>>>, data |-> Pattern(24, 3)],
      \* dir/d/.a.x
      [path |-> <<<<100, 105, 114>>, <<100>>, <<46, 97, 46, 120>>>>, data |-> Pattern(25, 3)],
      \* 001/d/c.x
      [path |-> <<<<48, 48, 49>>, <<100>>, <<99, 46, 120>>>>, data |-> Pattern(26, 3)],
      \* +01/d/p.x
      [path |-> <<<<43, 48, 49>>, <<100>>, <<112, 46, 120>>>>, data |-> Pattern(27, 3)],
      \* 01a/d/k.x
      [path |-> <<<<48, 49, 97>>, <<100>>, <<107, 46, 120>>>>, data |-> Pattern(28, 3)],
      \* zz/d/n
      [path |-> <<<<122, 122>>, <<100>>, <<110>>>>, data |-> Pattern(29, 3)],
      \* r.x
      [path |-> <<<<114, 46, 120>>>>, data |-> Pattern(30, 3)],
      \* dir/t.x
      [path |-> <<<<100, 105, 114>>, <<116, 46, 120>>>>, data |-> Pattern(31, 3)],
      \* 002/d/a.b.x, the path of dir/d/a.b.x in the package
      [path |-> <<<<48, 48, 50>>, <<100>>, <<97, 46, 98, 46, 120>>>>, data |-> Pattern(32, 3)],
      \* dir/d/g.x, larger than i32::MAX
      [path |-> <<<<100, 105, 114>>, <<100>>, <<103, 46, 120>>>>,
       data |-> Pattern(33, I32_MAX + 1)]
    }

NamedTrees == {T \in SUBSET NameCandidates : Cardinality(T) <= MaxNamedFiles}

InitNames ==
    /\ pc = "start"
    /\ error = ""
    /\ indir \in NamedTrees
    /\ options \in PackOptions
    /\ entries = << >>
    /\ exts = {}
    /\ list = << >>
    /\ index_size = 0
    /\ dir_size = 0
    /\ data_end_offset = 0
    /\ disk = << >>
    /\ archive_md5s = << >>
    /\ pkg = [err |-> "not read"]
    /\ unpacked = [status |-> "none"]
    /\ report = [status |-> "none"]
    /\ inode = [ino |-> 0]
    /\ reply = [kind |-> "none"]
    /\ walk = [to |-> "none"]
    /\ records = << >>
    /\ lookup = [kind |-> "none"]
    /\ sorting = [stage |-> "none"]
    /\ cache = [status |-> "none"]

SpecNames == InitNames /\ [][NextPack]_vars

(***************************************************************************)
(* Properties of the gather pass.                                          *)
(***************************************************************************)
\* a file name without '.', or starting or ending with '.'
BadName(name) == RFind(name, 46) = 0 \/ name[1] = 46 \/ name[Len(name)] = 46

\* C13: pack fails on every regular file it visits whose name contains no
\* '.', starts with '.', or ends with '.'; every file it accepts has a
\* non-empty NAME and a non-empty EXT, split at the last '.'.
C13_FilenameValidation ==
    pc # "start" =>
        /\ (\E s \in Scanned(indir, options) : BadName(FileName(s))) => pc = "failed"
        /\ pc # "failed" =>
             \A p \in DOMAIN entries :
                 /\ ItemName(p) # <<>> /\ ItemExt(p) # <<>>
                 /\ 46 \notin { ItemExt(p)[i] : i \in DOMAIN ItemExt(p) }

\* the regular files at the root of the scanned tree: directly in indir and,
\* under ArchiveFromDirName, directly inside a top-level archive folder
RootFiles(tree, opts) ==
    { f \in tree :
        \/ Len(f.path) = 1
        \/ /\ opts.strategy.kind = "ArchiveFromDirName"
           /\ Len(f.path) = 2
           /\ FolderTarget(f.path[1]).scan }

\* C14: under both strategies pack fails when a regular file lies at the
\* root of the scanned tree; such a file is never silently left out.
C14_RootFiles ==
    (pc # "start" /\ RootFiles(indir, options) # {}) => pc = "failed"

\* a folder name that is "dir", "inline", or three decimal digits
IsArchiveFolder(name) ==
    \/ name = <<100, 105, 114>>
    \/ name = <<105, 110, 108, 105, 110, 101>>
    \/ Len(name) = 3 /\ \A i \in 1..3 : IsDigit(name[i])

\* the files below the archive folders of a tree
Contributed(tree) == { f \in tree : Len(f.path) > 1 /\ IsArchiveFolder(f.path[1]) }

\* C15: under ArchiveFromDirName a top-level folder contributes entries
\* exactly if it is named "dir", "inline" or three decimal digits; every
\* other folder contributes none; every contributed file with size > 0 is
\* read back from the folder it was gathered from.
C15_FolderMapping ==
    (options.strategy.kind = "ArchiveFromDirName" /\ pc \notin {"start", "failed"}) =>
        /\ DOMAIN entries = { JoinPath(Tail(f.path)) : f \in Contributed(indir) }
        /\ pc \in {"archives_written", "packed"} =>
             \A f \in Contributed(indir) :
                 LET e == entries[JoinPath(Tail(f.path))]
                 IN  e.size > 0 =>
                       /\ e.archive_index \in DOMAIN disk
                       /\ Len(disk[e.archive_index]) >= e.offset + e.size
                       /\ Slice(disk[e.archive_index], e.offset, e.size)
                            = SubSeq(f.data, e.inline_size + 1, Len(f.data))

(***************************************************************************)
(* The loop of ArchiveStrategy::MaxArchiveSize (pack 530-566), one         *)
(* iteration per step, started from the loop states of a pack of many      *)
(* files: at the dir file, at archive 0 and at the last archives.          *)
(***************************************************************************)
MaxWalkFiles == 3

\* the sizes of the archived parts of the files in list
WalkSizes == {0, 2, 3, 7}

\* the paths a, b, c, ... of the files in list, in layout order
WalkList(n) == [i \in 1..n |-> <<96 + i>>]

WalkEntries(sizes) ==
    [ p \in { WalkList(Len(sizes))[i] : i \in DOMAIN sizes } |->
        [ index |-> 0, crc32 |-> 0, inline_size |-> 0, archive_index |-> DIR_INDEX,
          offset |-> 0, size |-> sizes[CHOOSE i \in DOMAIN sizes : <<96 + i>> = p],
          preload |-> <<>> ] ]

\* archive_index and archive_size when the loop reaches the files of the walk
LoopStates ==
    {[archive_index |-> DIR_INDEX, archive_size |-> s] : s \in {28, 30}}
    \cup {[archive_index |-> a, archive_size |-> s] :
            a \in {0, MAX_ARCHIVE_INDEX - 1, MAX_ARCHIVE_INDEX}, s \in {1, 4, 7}}

InitWalk ==
    /\ pc = "distributing"
    /\ error = ""
    /\ indir = {}
    /\ options \in { o \in PackOptions : /\ o.strategy.kind = "MaxArchiveSize"
                                         /\ o.version = 1 }
    /\ entries = << >>
    /\ exts = {}
    /\ list = << >>
    /\ index_size = 0
    /\ dir_size = 0
    /\ data_end_offset = 0
    /\ disk = << >>
    /\ archive_md5s = << >>
    /\ pkg = [err |-> "not read"]
    /\ unpacked = [status |-> "none"]
    /\ report = [status |-> "none"]
    /\ inode = [ino |-> 0]
    /\ reply = [kind |-> "none"]
    /\ \E n \in 1..MaxWalkFiles : \E sizes \in [1..n -> WalkSizes] : \E l \in LoopStates :
         walk = [ to |-> "loop", lst |-> WalkList(n), k |-> 1,
                  from |-> l,
                  st |-> [ ents |-> WalkEntries(sizes),
                           archive_index |-> l.archive_index,
                           archive_size |-> l.archive_size,
                           data_end |-> 28, err |-> "" ] ]
    /\ records = << >>
    /\ lookup = [kind |-> "none"]
    /\ sorting = [stage |-> "none"]
    /\ cache = [status |-> "none"]

\* pack 535-565: the body of `for item in list.iter_mut()`, once
LayoutStep ==
    /\ walk.to = "loop"
    /\ walk.k <= Len(walk.lst)
    /\ walk.st.err = ""
    /\ walk' = [walk EXCEPT !.st = MaxStep(walk.lst[walk.k], options, walk.st),
                            !.k = walk.k + 1]
    /\ UNCHANGED <<pc, error, indir, options, entries, exts, list, index_size, dir_size,
                   data_end_offset, disk, archive_md5s, pkg, unpacked, report,
                   mountVars, records, lookup, sorting, cache>>

NextWalk == LayoutStep

SpecWalk == InitWalk /\ [][NextWalk]_vars

\* the file the next iteration of the loop handles
WalkFile == walk.st.ents[walk.lst[walk.k]]

\* the aligned running size plus the size of the file exceeds S
MustRoll ==
    AlignUp(walk.st.archive_size, options.alignment) + WalkFile.size
        > options.strategy.max_size

ToAsciiLower(c) == IF c \in 65..90 THEN c + 32 ELSE c

\* str::eq_ignore_ascii_case
EqIgnoreAsciiCase(a, b) ==
    /\ Len(a) = Len(b)
    /\ \A i \in DOMAIN a : ToAsciiLower(a[i]) = ToAsciiLower(b[i])

\* the keys of the documentation of --sort and of SortKey::try_from
KeyNames ==
    { <<110, 97, 109, 101>>,   \* name
      <<112, 97, 116, 104>>,   \* path
      <<102, 105, 108, 101, 110, 97, 109, 101>>,   \* filename
      <<105, 110, 108, 105, 110, 101, 45, 115, 105, 122, 101>>,   \* inline-size
      <<97, 114, 99, 104, 105, 118, 101, 45, 115, 105, 122, 101>>,   \* archive-size
      <<115, 105, 122, 101>>,   \* size
      <<102, 117, 108, 108, 45, 115, 105, 122, 101>>,   \* full-size
      <<111, 102, 102, 115, 101, 116>>,   \* offset
      <<99, 114, 99, 51, 50>>,   \* crc32
      <<97, 114, 99, 104, 105, 118, 101>>,   \* archive
      <<97, 114, 99, 104, 105, 118, 101, 45, 105, 110, 100, 101, 120>>,   \* archive-index
      <<105, 110, 100, 101, 120>>   \* index
    }

\* SortKey::try_from; "" stands for Err(IllegalArgument)
try_from(value) ==
    IF \/ EqIgnoreAsciiCase(value, <<110, 97, 109, 101>>)
       \/ EqIgnoreAsciiCase(value, <<112, 97, 116, 104>>)
       \/ EqIgnoreAsciiCase(value, <<102, 105, 108, 101, 110, 97, 109, 101>>)
    THEN "Name"
    ELSE IF EqIgnoreAsciiCase(value, <<105, 110, 108, 105, 110, 101, 45, 115, 105, 122, 101>>) THEN "InlineSize"
    ELSE IF EqIgnoreAsciiCase(value, <<97, 114, 99, 104, 105, 118, 101, 45, 115, 105, 122, 101>>) THEN "ArchiveSize"
    ELSE IF \/ EqIgnoreAsciiCase(value, <<115, 105, 122, 101>>)
            \/ EqIgnoreAsciiCase(value, <<102, 117, 108, 108, 45, 115, 105, 122, 101>>)
    THEN "FullSize"
    ELSE IF EqIgnoreAsciiCase(value, <<111, 102, 102, 115, 101, 116>>) THEN "Offset"
    ELSE IF EqIgnoreAsciiCase(value, <<99, 114, 99, 51, 50>>) THEN "CRC32"
    ELSE IF \/ EqIgnoreAsciiCase(value, <<97, 114, 99, 104, 105, 118, 101>>)
            \/ EqIgnoreAsciiCase(value, <<97, 114, 99, 104, 105, 118, 101, 45, 105, 110, 100, 101, 120>>)
    THEN "ArchiveIndex"
    ELSE IF EqIgnoreAsciiCase(value, <<105, 110, 100, 101, 120>>) THEN "Index"
    ELSE IF EqIgnoreAsciiCase(value, <<45, 110, 97, 109, 101>>) THEN "RevName"
    ELSE IF EqIgnoreAsciiCase(value, <<45, 105, 110, 108, 105, 110, 101, 45, 115, 105, 122, 101>>) THEN "RevInlineSize"
    ELSE IF EqIgnoreAsciiCase(value, <<45, 97, 114, 99, 104, 105, 118, 101, 45, 115, 105, 122, 101>>) THEN "RevArchiveSize"
    ELSE IF \/ EqIgnoreAsciiCase(value, <<45, 115, 105, 122, 101>>)
            \/ EqIgnoreAsciiCase(value, <<45, 102, 117, 108, 108, 45, 115, 105, 122, 101>>)
    THEN "RevFullSize"
    ELSE IF EqIgnoreAsciiCase(value, <<45, 111, 102, 102, 115, 101, 116>>) THEN "RevOffset"
    ELSE IF EqIgnoreAsciiCase(value, <<45, 99, 114, 99, 51, 50>>) THEN "RevCRC32"
    ELSE IF \/ EqIgnoreAsciiCase(value, <<45, 97, 114, 99, 104, 105, 118, 101>>)
            \/ EqIgnoreAsciiCase(value, <<45, 97, 114, 99, 104, 105, 118, 101, 45, 105, 110, 100, 101, 120>>)
    THEN "RevArchiveIndex"
    ELSE IF EqIgnoreAsciiCase(value, <<45, 105, 110, 100, 101, 120>>) THEN "RevIndex"
    ELSE ""

\* Ord::cmp of two integers: -1 (Less), 0 (Equal), 1 (Greater)
IntCmp(x, y) == IF x < y THEN -1 ELSE IF x > y THEN 1 ELSE 0

\* SortKey::to_cmp, applied to the items a and b = (path, file)
to_cmp(key, a, b) ==
    CASE key = "Name"            -> StrCmp(a.path, b.path)
      [] key = "InlineSize"      -> IntCmp(a.file.inline_size, b.file.inline_size)
      [] key = "ArchiveSize"     -> IntCmp(a.file.size, b.file.size)
      [] key = "FullSize"        -> IntCmp(a.file.size + a.file.inline_size,
                                           b.file.size + b.file.inline_size)
      [] key = "CRC32"           -> IntCmp(a.file.crc32, b.file.crc32)
      [] key = "ArchiveIndex"    -> IntCmp(a.file.archive_index, b.file.archive_index)
      [] key = "Offset"          -> IntCmp(a.file.offset, b.file.offset)
      [] key = "Index"           -> IntCmp(a.file.index, b.file.index)
      [] key = "RevName"         -> StrCmp(b.path, a.path)
      [] key = "RevArchiveSize"  -> IntCmp(b.file.size, a.file.size)
      [] key = "RevInlineSize"   -> IntCmp(b.file.inline_size, a.file.inline_size)
      [] key = "RevFullSize"     -> IntCmp(b.file.size + b.file.inline_size,
                                           a.file.size + a.file.inline_size)
      [] key = "RevCRC32"        -> IntCmp(b.file.crc32, a.file.crc32)
      [] key = "RevArchiveIndex" -> IntCmp(b.file.archive_index, a.file.archive_index)
      [] key = "RevOffset"       -> IntCmp(b.file.offset, a.file.offset)
      [] key = "RevIndex"        -> IntCmp(b.file.index, a.file.index)

\* chain / make_chain: the first comparator of order that is not Equal
RECURSIVE make_chain(_, _, _, _)
make_chain(order, k, a, b) ==
    IF k > Len(order) THEN 0
    ELSE IF to_cmp(order[k], a, b) # 0 THEN to_cmp(order[k], a, b)
    ELSE make_chain(order, k + 1, a, b)

\* slice::sort_by is stable: x goes behind the last element that is not
\* Greater than it
RECURSIVE InsertStable(_, _, _)
InsertStable(sorted, x, order) ==
    IF sorted = <<>> THEN <<x>>
    ELSE IF make_chain(order, 1, sorted[Len(sorted)], x) <= 0 THEN Append(sorted, x)
    ELSE Append(InsertStable(SubSeq(sorted, 1, Len(sorted) - 1), x, order),
                sorted[Len(sorted)])

RECURSIVE SortBy(_, _, _)
SortBy(lst, k, order) ==
    IF k = 0 THEN <<>>
    ELSE InsertStable(SortBy(lst, k - 1, order), lst[k], order)

\* sort
sort(lst, order) == IF order = <<>> THEN lst ELSE SortBy(lst, Len(lst), order)

\* str::split(','): the pieces between the commas, empty ones included
RECURSIVE SplitComma(_, _, _)
SplitComma(s, i, cur) ==
    IF i > Len(s) THEN <<cur>>
    ELSE IF s[i] = 44 THEN <<cur>> \o SplitComma(s, i + 1, <<>>)
    ELSE SplitComma(s, i + 1, Append(cur, s[i]))

\* parse_order: [err, order]
parse_order(value) ==
    LET parts == SplitComma(value, 1, <<>>)
        keys  == [i \in DOMAIN parts |-> try_from(parts[i])]
    IN  IF \E i \in DOMAIN keys : keys[i] = ""
        THEN [err |-> "illegal argument", order |-> <<>>]
        ELSE [err |-> "", order |-> keys]

(***************************************************************************)
(* `vpk list --sort=ORDER`: parse_order on the value of the option, then   *)
(* sort on a list of (path, file) items.                                   *)
(***************************************************************************)
MaxSortItems == 3

\* the key with '-' prepended
Minus(k) == <<45>> \o k

\* the values of --sort
OrderValues ==
    KeyNames \cup { Minus(k) : k \in KeyNames } \cup
    { <<78, 65, 77, 69>>,
      <<45, 83, 105, 122, 101>>,
      <<98, 111, 103, 117, 115>>,
      <<>>,
      <<115, 105, 122, 101, 44, 45, 110, 97, 109, 101>>,
      <<97, 114, 99, 104, 105, 118, 101, 44, 111, 102, 102, 115, 101, 116>>,
      <<45, 102, 117, 108, 108, 45, 115, 105, 122, 101, 44, 110, 97, 109, 101>>,
      <<45, 112, 97, 116, 104, 44, 115, 105, 122, 101>>,
      <<110, 97, 109, 101, 44>>
    }

\* the files of the list: a/b.x, a/c.x and b/a.y
SortFiles ==
    { [ path |-> <<97, 47, 98, 46, 120>>,
        file |-> [ index |-> 2, crc32 |-> 5, inline_size |-> 0, archive_index |-> 0,
                   offset |-> 0, size |-> 3, preload |-> <<>> ] ],
      [ path |-> <<97, 47, 99, 46, 120>>,
        file |-> [ index |-> 0, crc32 |-> 9, inline_size |-> 2, archive_index |-> DIR_INDEX,
                   offset |-> 4, size |-> 0, preload |-> <<7, 7>> ] ],
      [ path |-> <<98, 47, 97, 46, 121>>,
        file |-> [ index |-> 1, crc32 |-> 1, inline_size |-> 1, archive_index |-> 0,
                   offset |-> 3, size |-> 3, preload |-> <<7>> ] ] }

SortLists ==
    { q \in UNION { [1..n -> SortFiles] : n \in 0..MaxSortItems } :
        \A i, j \in DOMAIN q : q[i] = q[j] => i = j }

InitSort ==
    /\ pc = "listing"
    /\ error = ""
    /\ indir = {}
    /\ options \in { o \in PackOptions : /\ o.strategy.kind = "ArchiveFromDirName"
                                         /\ o.version = 1 /\ o.alignment = 1 }
    /\ entries = << >>
    /\ exts = {}
    /\ list = << >>
    /\ index_size = 0
    /\ dir_size = 0
    /\ data_end_offset = 0
    /\ disk = << >>
    /\ archive_md5s = << >>
    /\ pkg = [err |-> "not read"]
    /\ unpacked = [status |-> "none"]
    /\ report = [status |-> "none"]
    /\ inode = [ino |-> 0]
    /\ reply = [kind |-> "none"]
    /\ walk = [to |-> "none"]
    /\ records = << >>
    /\ lookup = [kind |-> "none"]
    /\ \E v \in OrderValues : \E l \in SortLists :
         sorting = [stage |-> "given", value |-> v, items |-> l, order |-> <<>>,
                    result |-> <<>>]
    /\ cache = [status |-> "none"]

\* main.rs 304: parse_order(order)?
ParseOrder ==
    /\ sorting.stage = "given"
    /\ LET r == parse_order(sorting.value)
       IN  sorting' = [sorting EXCEPT !.stage = IF r.err = "" THEN "parsed" ELSE "rejected",
                                      !.order = r.order]
    /\ UNCHANGED <<pc, error, indir, options, entries, exts, list, index_size, dir_size,
                   data_end_offset, disk, archive_md5s, pkg, unpacked, report,
                   mountVars, walk, records, lookup, cache>>

\* package.rs 478, 506: sort(&mut list, order)
SortItems ==
    /\ sorting.stage = "parsed"
    /\ sorting' = [sorting EXCEPT !.stage = "sorted",
                                  !.result = sort(sorting.items, sorting.order)]
    /\ UNCHANGED <<pc, error, indir, options, entries, exts, list, index_size, dir_size,
                   data_end_offset, disk, archive_md5s, pkg, unpacked, report,
                   mountVars, walk, records, lookup, cache>>

NextSort == ParseOrder \/ SortItems

SpecSort == InitSort /\ [][NextSort]_vars

\* the key a reversed key reverses
Reversed ==
    [ k \in {"RevName", "RevInlineSize", "RevArchiveSize", "RevFullSize", "RevCRC32",
             "RevArchiveIndex", "RevOffset", "RevIndex"} |->
        CASE k = "RevName" -> "Name"
          [] k = "RevInlineSize" -> "InlineSize"
          [] k = "RevArchiveSize" -> "ArchiveSize"
          [] k = "RevFullSize" -> "FullSize"
          [] k = "RevCRC32" -> "CRC32"
          [] k = "RevArchiveIndex" -> "ArchiveIndex"
          [] k = "RevOffset" -> "Offset"
          [] k = "RevIndex" -> "Index" ]

\* the order of a and b under a key, a reversed key being its key reversed
KeyOrder(key, a, b) ==
    IF key \in DOMAIN Reversed THEN 0 - to_cmp(Reversed[key], a, b) ELSE to_cmp(key, a, b)

\* a comes behind b in the lexicographic order of the keys
LexGreater(order, a, b) ==
    \E n \in DOMAIN order :
        /\ KeyOrder(order[n], a, b) = 1
        /\ \A m \in 1..(n - 1) : KeyOrder(order[m], a, b) = 0

\* C17: for every key k that parse_order accepts (name, path, filename,
\* inline-size, archive-size, size, full-size, offset, crc32, archive,
\* archive-index, index), "-" followed by k is accepted too and denotes the
\* comparator of k reversed; a list of keys sorts lexicographically by the
\* keys in their order.
C17_ReversibleKeys ==
    /\ (sorting.stage \in {"parsed", "rejected", "sorted"}
          /\ \E k \in KeyNames : sorting.value = Minus(k)) =>
         /\ sorting.stage # "rejected"
         /\ Len(sorting.order) = 1
         /\ \A a, b \in SortFiles :
              to_cmp(sorting.order[1], a, b)
                = 0 - to_cmp(try_from(Tail(sorting.value)), a, b)
    /\ sorting.stage = "sorted" =>
         /\ Len(sorting.result) = Len(sorting.items)
         /\ { sorting.result[i] : i \in DOMAIN sorting.result }
              = { sorting.items[i] : i \in DOMAIN sorting.items }
         /\ \A i, j \in DOMAIN sorting.result :
              i < j => ~LexGreater(sorting.order, sorting.result[i], sorting.result[j])

(***************************************************************************)
(* Properties of the offsets across pack and a fresh read.                 *)
(***************************************************************************)
\* C19: for every entry pack lays out with archive_index = DIR_INDEX, the
\* entries inlined as a whole (size 0) included, the offset a fresh reader
\* holds in memory equals the offset in the Package pack returned; the
\* offsets of entries in numbered archives are written and read unchanged.
C19_OffsetNormalizedOnce ==
    (pc = "packed" /\ pkg # NoPackage /\ pkg.err = "") =>
        \A p \in DOMAIN entries :
            /\ p \in DOMAIN pkg.entries
            /\ pkg.entries[p].archive_index = entries[p].archive_index
            /\ pkg.entries[p].offset = entries[p].offset

(***************************************************************************)
(* Properties of the size of the index.                                    *)
(***************************************************************************)
\* C20: for every tree gather accepts, the index_size computed in the layout
\* pass equals the number of bytes write_dir emits for the index:
\* header_size + index_size is the length of the dir file after write_dir,
\* and the branch "internal error: actual_dir_size != dir_size" is never
\* taken.
C20_ExactIndexSize ==
    /\ error # "internal error: actual_dir_size != dir_size"
    /\ pc = "dir_written" =>
         /\ dir_size = HeaderSize(options.version) + index_size
         /\ Len(disk[DIR_INDEX]) = HeaderSize(options.version) + index_size
         /\ Len(disk[DIR_INDEX]) = dir_size

\* write_dir has written an index with two extensions, two directories under
\* one extension and a preload
C20_Witness ==
    /\ pc = "dir_written"
    /\ Cardinality(exts) >= 2
    /\ \E p, q \in DOMAIN entries : ItemExt(p) = ItemExt(q) /\ ItemDir(p) # ItemDir(q)
    /\ \E p \in DOMAIN entries : entries[p].inline_size > 0
    /\ Len(disk[DIR_INDEX]) = dir_size

(***************************************************************************)
(* Properties of the chunk table order.                                    *)
(***************************************************************************)
\* the place of an archive in the chunk table: the dir file first, then the
\* numbered archives in ascending order
ArchiveRank(a) == IF a = DIR_INDEX THEN 0 - 1 ELSE a

\* C21: in every V2 package written by pack the archive MD5 records are
\* grouped by archive, the records of the dir file first, the numbered
\* archives in ascending index, and within one archive in ascending offset.
C21_ChunkTableOrder ==
    (pc = "packed" /\ options.version = 2) =>
        \A i, j \in DOMAIN archive_md5s :
            i < j =>
              \/ ArchiveRank(archive_md5s[i].archive_index)
                   < ArchiveRank(archive_md5s[j].archive_index)
              \/ /\ archive_md5s[i].archive_index = archive_md5s[j].archive_index
                 /\ archive_md5s[i].offset < archive_md5s[j].offset

(***************************************************************************)
(* Properties of the order of the passes of pack.                          *)
(***************************************************************************)
\* the errors of the gather pass and of the layout pass
PassErrors ==
    { "unsupported version", "all files must be in sub-directories",
      "filenames must be of format NAME.EXT", "file occured twice", "entry not a dir",
      "file too big", "file is meant to be inlined into the index, but is too big",
      "index too large", "too many archives" }

BUFFER_SIZE == 2

MaxCacheCalls == 3

\* util::archive_path: p_dir.vpk, p_NNN.vpk
archive_path(index) ==
    IF index = DIR_INDEX
    THEN <<112, 95, 100, 105, 114, 46, 118, 112, 107>>
    ELSE <<112, 95>> \o Fmt03(index) \o <<46, 118, 112, 107>>

\* the archive files on disk: p_dir.vpk and p_000.vpk; p_001.vpk is missing
CacheDisk == (DIR_INDEX :> Pattern(1, 12)) @@ (0 :> Pattern(2, 7))

CacheIndexes == {DIR_INDEX, 0, 1}

\* the file entries the calls are made with
CacheFiles ==
    { [ index |-> 0, crc32 |-> 0, inline_size |-> 1, archive_index |-> DIR_INDEX,
        offset |-> 5, size |-> 5, preload |-> <<9>> ],
      [ index |-> 1, crc32 |-> 0, inline_size |-> 0, archive_index |-> 0,
        offset |-> 1, size |-> 4, preload |-> <<>> ],
      [ index |-> 2, crc32 |-> 0, inline_size |-> 2, archive_index |-> 1,
        offset |-> 0, size |-> 0, preload |-> <<7, 8>> ],
      [ index |-> 3, crc32 |-> 0, inline_size |-> 0, archive_index |-> 1,
        offset |-> 0, size |-> 2, preload |-> <<>> ],
      [ index |-> 4, crc32 |-> 0, inline_size |-> 0, archive_index |-> 0,
        offset |-> 4, size |-> 5, preload |-> <<>> ] }

\* a variant of Cached that never finds a handle
CachedNever(archives, index) == FALSE

\* get 88: self.archives.contains_key(&index)
Cached(archives, index) == index \in DOMAIN archives

\* get 87-106 on the handles and open counts of c: [archives, opens, ret]
cache_get(c, files, index) ==
    IF Cached(c.archives, index)
    THEN [archives |-> c.archives, opens |-> c.opens, ret |-> [kind |-> "ok"]]
    ELSE IF index \in DOMAIN files
    THEN [ archives |-> [i \in DOMAIN c.archives \cup {index} |->
                           IF i = index
                           THEN [mode |-> IF index = DIR_INDEX THEN "dir" ELSE "other",
                                 pos |-> 0]
                           ELSE c.archives[i]],
           opens |-> [c.opens EXCEPT ![index] = @ + 1],
           ret |-> [kind |-> "ok"] ]
    ELSE [ archives |-> c.archives, opens |-> c.opens,
           ret |-> [kind |-> "io", path |-> archive_path(index)] ]

\* a variant of SeekStart that seeks relative to the position of the handle
SeekCurrent(pos, offset) == pos + offset

\* read_file_data 120, transfer 153: reader.seek(SeekFrom::Start(offset))
SeekStart(pos, offset) == offset

\* read_file_data 124-140: the chunks handed to the callback from pos on, k
\* the number of the next callback, fail_at the callback that returns Err
\* (0: none): [chunks, pos, ret]
RECURSIVE ReadChunks(_, _, _, _, _, _)
ReadChunks(bytes, pos, remain, k, fail_at, index) ==
    IF remain = 0 THEN [chunks |-> <<>>, pos |-> pos, ret |-> [kind |-> "ok"]]
    ELSE LET n == Min(remain, BUFFER_SIZE) IN
         IF pos + n > Len(bytes)
         THEN [chunks |-> <<>>, pos |-> Max(pos, Len(bytes)),
               ret |-> [kind |-> "io", path |-> archive_path(index)]]
         ELSE IF k = fail_at
         THEN [chunks |-> <<Slice(bytes, pos, n)>>, pos |-> pos + n,
               ret |-> [kind |-> "callback"]]
         ELSE LET r == ReadChunks(bytes, pos + n, remain - n, k + 1, fail_at, index)
              IN  [r EXCEPT !.chunks = <<Slice(bytes, pos, n)>> \o @]

\* ArchiveCache::read_file_data 113-144: [archives, opens, chunks, ret]
ReadFileDataCalls(c, files, f, fail_at) ==
    IF fail_at = 1
    THEN [archives |-> c.archives, opens |-> c.opens, chunks |-> <<f.preload>>,
          ret |-> [kind |-> "callback"]]
    ELSE IF f.size = 0
    THEN [archives |-> c.archives, opens |-> c.opens, chunks |-> <<f.preload>>,
          ret |-> [kind |-> "ok"]]
    ELSE LET g == cache_get(c, files, f.archive_index) IN
         IF g.ret.kind # "ok"
         THEN [archives |-> g.archives, opens |-> g.opens, chunks |-> <<f.preload>>,
               ret |-> g.ret]
         ELSE LET start == SeekStart(g.archives[f.archive_index].pos, f.offset)
                  r == ReadChunks(files[f.archive_index], start, f.size, 2, fail_at,
                                  f.archive_index)
              IN  [ archives |-> [g.archives EXCEPT ![f.archive_index].pos = r.pos],
                    opens |-> g.opens,
                    chunks |-> <<f.preload>> \o r.chunks,
                    ret |-> r.ret ]

\* the bytes [offset, offset + size) lie in the archive file
RangeOnDisk(files, f) ==
    f.archive_index \in DOMAIN files /\ f.offset + f.size <= Len(files[f.archive_index])

\* ArchiveCache::transfer 146-161: [archives, opens, written, ret]
TransferCalls(c, files, f) ==
    IF f.size = 0
    THEN [archives |-> c.archives, opens |-> c.opens, written |-> f.preload,
          ret |-> [kind |-> "ok"]]
    ELSE LET g == cache_get(c, files, f.archive_index) IN
         IF g.ret.kind # "ok"
         THEN [archives |-> g.archives, opens |-> g.opens, written |-> f.preload,
               ret |-> g.ret]
         ELSE LET start == SeekStart(g.archives[f.archive_index].pos, f.offset)
              IN  [ archives |-> [g.archives EXCEPT ![f.archive_index].pos = start + f.size],
                    opens |-> g.opens,
                    written |-> f.preload \o Slice(files[f.archive_index], start, f.size),
                    ret |-> [kind |-> "ok"] ]

InitCache ==
    /\ pc = "cache"
    /\ error = ""
    /\ indir = {}
    /\ options \in { o \in PackOptions : /\ o.strategy.kind = "ArchiveFromDirName"
                                         /\ o.version = 1 /\ o.alignment = 1 }
    /\ entries = << >>
    /\ exts = {}
    /\ list = << >>
    /\ index_size = 0
    /\ dir_size = 0
    /\ data_end_offset = 0
    /\ disk = CacheDisk
    /\ archive_md5s = << >>
    /\ pkg = [err |-> "not read"]
    /\ unpacked = [status |-> "none"]
    /\ report = [status |-> "none"]
    /\ inode = [ino |-> 0]
    /\ reply = [kind |-> "none"]
    /\ walk = [to |-> "none"]
    /\ records = << >>
    /\ lookup = [kind |-> "none"]
    /\ sorting = [stage |-> "none"]
    /\ cache = [ status |-> "open", archives |-> << >>,
                 opens |-> [i \in CacheIndexes |-> 0], calls |-> 0,
                 last |-> [op |-> "none"] ]

CacheFrame ==
    UNCHANGED <<pc, error, indir, options, entries, exts, list, index_size, dir_size,
                data_end_offset, disk, archive_md5s, pkg, unpacked, report,
                mountVars, walk, records, lookup, sorting>>

\* a call of ArchiveCache::get
CacheGet ==
    /\ cache.status = "open"
    /\ cache.calls < MaxCacheCalls
    /\ \E index \in CacheIndexes :
         LET g == cache_get(cache, disk, index)
         IN  cache' = [cache EXCEPT !.archives = g.archives, !.opens = g.opens,
                                    !.calls = @ + 1,
                                    !.last = [op |-> "get", index |-> index, ret |-> g.ret,
                                              before |-> cache.archives]]
    /\ CacheFrame

\* a call of ArchiveCache::read_file_data with a callback that fails at its
\* fail_at-th invocation (0: never)
CacheRead ==
    /\ cache.status = "open"
    /\ cache.calls < MaxCacheCalls
    /\ \E f \in CacheFiles, fail_at \in 0..3 :
         LET r == ReadFileDataCalls(cache, disk, f, fail_at)
         IN  cache' = [cache EXCEPT !.archives = r.archives, !.opens = r.opens,
                                    !.calls = @ + 1,
                                    !.last = [op |-> "read", file |-> f, fail_at |-> fail_at,
                                              chunks |-> r.chunks, ret |-> r.ret,
                                              before |-> cache.archives]]
    /\ CacheFrame

\* a call of ArchiveCache::transfer; on a range that ends behind the archive
\* file sendfile returns 0 for ever and the call does not return
CacheTransfer ==
    /\ cache.status = "open"
    /\ cache.calls < MaxCacheCalls
    /\ \E f \in CacheFiles :
         /\ (f.size > 0 /\ f.archive_index \in DOMAIN disk) => RangeOnDisk(disk, f)
         /\ LET r == TransferCalls(cache, disk, f)
            IN  cache' = [cache EXCEPT !.archives = r.archives, !.opens = r.opens,
                                       !.calls = @ + 1,
                                       !.last = [op |-> "transfer", file |-> f,
                                                 written |-> r.written, ret |-> r.ret,
                                                 before |-> cache.archives]]
    /\ CacheFrame

NextCache == CacheGet \/ CacheRead \/ CacheTransfer

SpecCache == InitCache /\ [][NextCache]_vars

\* C23: the cache holds exactly one handle for each index whose open has
\* succeeded; each archive file is opened at most once and a later get
\* returns the cached handle; the dir file is opened with the dir open mode
\* and numbered archives with the other mode; no handle is removed; a get
\* whose open fails returns an IO error with the archive path and leaves
\* the set of handles unchanged.
C23_ArchiveCache ==
    cache.status = "open" =>
        /\ DOMAIN cache.archives = { i \in CacheIndexes : cache.opens[i] > 0 }
        /\ \A i \in CacheIndexes : cache.opens[i] <= 1
        /\ \A i \in DOMAIN cache.archives :
             cache.archives[i].mode = IF i = DIR_INDEX THEN "dir" ELSE "other"
        /\ cache.last.op # "none" => DOMAIN cache.last.before \subseteq DOMAIN cache.archives
        /\ cache.last.op = "get" =>
             /\ cache.last.index \in DOMAIN cache.last.before =>
                  cache.last.ret.kind = "ok" /\ cache.archives = cache.last.before
             /\ cache.last.ret.kind = "ok" <=> cache.last.index \in DOMAIN cache.archives
             /\ cache.last.ret.kind # "ok" =>
                  /\ cache.last.ret = [kind |-> "io", path |-> archive_path(cache.last.index)]
                  /\ cache.archives = cache.last.before

\* three calls: the dir file and archive 0 are open, and the last get found
\* its handle in the cache
C23_Witness ==
    /\ cache.status = "open"
    /\ cache.calls = 3
    /\ cache.last.op = "get"
    /\ cache.last.index \in DOMAIN cache.last.before
    /\ DOMAIN cache.archives = {DIR_INDEX, 0}

\* the concatenation of a sequence of chunks
RECURSIVE Concat(_)
Concat(chunks) == IF chunks = <<>> THEN <<>> ELSE Head(chunks) \o Concat(Tail(chunks))

\* C24: read_file_data, after any earlier calls on the same cache, invokes
\* the callback first with the preload and then with consecutive chunks of
\* at most BUFFER_SIZE bytes whose concatenation is archive[offset,
\* offset + size); the total is inline_size + size; with size = 0 no archive
\* is opened; when the callback returns an error no further callback
\* happens and that error is returned.
C24_ReadFileData ==
    (cache.status = "open" /\ cache.last.op = "read") =>
        LET f      == cache.last.file
            chunks == cache.last.chunks
            data   == Concat(Tail(chunks))
        IN  /\ Len(chunks) >= 1 /\ chunks[1] = f.preload
            /\ \A k \in 2..Len(chunks) : Len(chunks[k]) \in 1..BUFFER_SIZE
            /\ f.size = 0 => cache.archives = cache.last.before /\ Len(chunks) = 1
            /\ (f.size > 0 /\ RangeOnDisk(disk, f)) =>
                 /\ data = Slice(disk[f.archive_index], f.offset, Len(data))
                 /\ cache.last.ret.kind \in {"ok", "callback"}
                 /\ cache.last.ret.kind = "ok" =>
                      /\ data = Slice(disk[f.archive_index], f.offset, f.size)
                      /\ Len(chunks[1]) + Len(data) = f.inline_size + f.size
            /\ cache.last.ret.kind = "callback" <=>
                 (cache.last.fail_at # 0 /\ Len(chunks) = cache.last.fail_at)
            /\ (f.size = 0 /\ cache.last.fail_at # 1) => cache.last.ret.kind = "ok"

\* a read of 5 bytes in three chunks behind the preload, through a handle an
\* earlier call has left at another position
C24_Witness ==
    /\ cache.status = "open"
    /\ cache.last.op = "read"
    /\ cache.last.ret.kind = "ok"
    /\ Len(cache.last.chunks) = 4
    /\ cache.last.file.archive_index \in DOMAIN cache.last.before
    /\ cache.last.before[cache.last.file.archive_index].pos
         \notin {0, cache.last.file.offset}

(***************************************************************************)
(* C25: after a version 2 pack the bytes hashed into everything_md5 are    *)
(* the final contents of the dir file in                                   *)
(* [0, data_end_offset + archive_md5_size + 32): the chunk table, the two  *)
(* section digests and the size quadruple are in the file when the digest  *)
(* is read, and the digest itself is written right behind that range.      *)
(***************************************************************************)
EverythingEnd == data_end_offset + AsU32(ARCHIVE_MD5_SIZE * Len(archive_md5s)) + 16 * 2

C25_FinalizationOrder ==
    (pc = "packed" /\ options.version = 2) =>
        LET dir == disk[DIR_INDEX]
            archive_md5_size == AsU32(ARCHIVE_MD5_SIZE * Len(archive_md5s))
        IN  /\ Len(dir) = EverythingEnd + 16
            /\ Slice(dir, EverythingEnd, 16) = Md5(Slice(dir, 0, EverythingEnd))
            /\ Slice(dir, data_end_offset, archive_md5_size) = write_archive_md5s(archive_md5s)
            /\ Slice(dir, data_end_offset + archive_md5_size, 16)
                 = Md5(Slice(dir, V2_HEADER_SIZE, index_size))
            /\ Slice(dir, data_end_offset + archive_md5_size + 16, 16)
                 = Md5(Slice(dir, data_end_offset, archive_md5_size))
            /\ Slice(dir, V1_HEADER_SIZE, 16)
                 = write_u32(DataSize(data_end_offset, dir_size)) \o write_u32(archive_md5_size)
                   \o write_u32(OTHER_MD5_SIZE) \o write_u32(0)

C25_Witness ==
    /\ pc = "packed"
    /\ options.version = 2
    /\ Len(archive_md5s) >= 2
    /\ data_end_offset > dir_size
    /\ Slice(disk[DIR_INDEX], EverythingEnd, 16) = Md5(Slice(disk[DIR_INDEX], 0, EverythingEnd))

(***************************************************************************)
(* Properties of the data region of the dir file.                          *)
(***************************************************************************)
\* one past the last payload byte pack stored in the dir file, or
\* header_size + index_size when it stored none there
PayloadEnd ==
    LET indir_entries == {p \in DOMAIN entries :
                            entries[p].archive_index = DIR_INDEX /\ entries[p].size > 0}
    IN  IF indir_entries = {} THEN dir_size
        ELSE CHOOSE e \in {entries[p].offset + entries[p].size : p \in indir_entries} :
               \A p \in indir_entries : entries[p].offset + entries[p].size <= e

\* C26: after pack (either strategy, any alignment) header_size + index_size
\* + data_size is the offset one past the last payload byte stored in the dir
\* file, or header_size + index_size when no payload is stored there: the
\* alignment padding computed for a file that then went to archive 000 is not
\* counted.
C26_DataTailSize ==
    pc = "packed" => dir_size + DataSize(data_end_offset, dir_size) = PayloadEnd

(***************************************************************************)
(* Properties of check on the packages pack writes.                        *)
(***************************************************************************)
\* check 139, 182: the files check reports as not aligned
NotAligned(package, alignment) ==
    { q \in DOMAIN package.entries :
        alignment > 0 /\ package.entries[q].offset % alignment # 0 }

\* C27: for every package pack produced with alignment A >= 1, read back and
\* checked with the same alignment A, check reports no file as not aligned,
\* the files inlined as a whole (size 0) included.
C27_AlignmentAgreement ==
    (/\ pc = "packed"
     /\ pkg # NoPackage /\ pkg.err = ""
     /\ report.status # "none"
     /\ report.alignment = options.alignment)
        => NotAligned(pkg, report.alignment) = {}

(***************************************************************************)
(* Properties of the payload ranges the layout assigns.                    *)
(***************************************************************************)
ListPos(p) == CHOOSE i \in DOMAIN list : list[i] = p

\* the position the running size of p's archive has when the layout reaches
\* p: behind the entries of that archive laid out before it, rounded up
RunningPosition(p) ==
    LET a      == entries[p].archive_index
        before == { q \in PayloadIn(a) : ListPos(q) < ListPos(p) }
        ends   == { entries[q].offset + entries[q].size : q \in before }
        top    == IF ends = {} THEN (IF a = DIR_INDEX THEN dir_size ELSE 0)
                  ELSE CHOOSE e \in ends : \A x \in ends : x <= e
    IN  AlignUp(top, options.alignment)

\* C28: once the layout is fixed, the byte ranges [offset, offset + size) of
\* the entries with size > 0 of one archive are pairwise disjoint, those in
\* the dir file start at or after header_size + index_size, and every
\* recorded offset is the running position of its archive; pack fails
\* rather than record an offset that does not fit 32 bits.
C28_NoOverlap ==
    pc \in {"laid_out", "dir_written", "archives_written", "packed"} =>
        \A p \in DOMAIN entries :
            entries[p].size > 0 =>
                /\ entries[p].archive_index = DIR_INDEX => entries[p].offset >= dir_size
                /\ entries[p].offset = RunningPosition(p)
                /\ \A q \in PayloadIn(entries[p].archive_index) \ {p} :
                       \/ entries[p].offset + entries[p].size <= entries[q].offset
                       \/ entries[q].offset + entries[q].size <= entries[p].offset

(***************************************************************************)
(* package.rs, Package::recursive_file_list (474-481) and                  *)
(* recursive_file_list_from (483-509) with the walk recursive_file_list    *)
(* (516-531), on the tree of a package that was read.  A list item is      *)
(* (path, &File); `ref` is the file of the tree the reference points to.   *)
(***************************************************************************)
MaxListPaths == 2

\* the files of the packages: a/b/f.x, a/b/g.y, a/c.x and e/h.x
ListFiles ==
    (<<97, 47, 98, 47, 102, 46, 120>> :>
        [ index |-> 0, crc32 |-> 5, inline_size |-> 0, archive_index |-> 0,
          offset |-> 3, size |-> 3, preload |-> <<>> ]) @@
    (<<97, 47, 98, 47, 103, 46, 121>> :>
        [ index |-> 3, crc32 |-> 9, inline_size |-> 0, archive_index |-> 0,
          offset |-> 0, size |-> 3, preload |-> <<>> ]) @@
    (<<97, 47, 99, 46, 120>> :>
        [ index |-> 1, crc32 |-> 1, inline_size |-> 2, archive_index |-> DIR_INDEX,
          offset |-> 0, size |-> 0, preload |-> <<7, 7>> ]) @@
    (<<101, 47, 104, 46, 120>> :>
        [ index |-> 2, crc32 |-> 4, inline_size |-> 0, archive_index |-> 0,
          offset |-> 3, size |-> 3, preload |-> <<>> ])

\* the directory a file lies in
ParentDir(p) == JoinPath(SubSeq(split_path(p), 1, Len(split_path(p)) - 1))

\* the package with the files S
ListPackage(S) ==
    [ err     |-> "",
      entries |-> [q \in S |-> ListFiles[q]],
      dirs    |-> UNION { PathPrefixes(ParentDir(q)) : q \in S } ]

\* the paths given to recursive_file_list_from: a, a/b, a/b/f.x, e, /a/, n
ListArgs ==
    { <<97>>, <<97, 47, 98>>, <<97, 47, 98, 47, 102, 46, 120>>, <<101>>,
      <<47, 97, 47>>, <<110>> }

ListArgLists == UNION { [1..n -> ListArgs] : n \in 1..MaxListPaths }

\* DEFAULT_ORDER and PHYSICAL_ORDER (sort.rs 29-30), and a list of two keys
ListOrders == { <<"Name">>, <<"ArchiveIndex", "Offset">>, <<"RevArchiveSize", "Name">> }

\* q lies in the directory d; the root is the empty path
Below(q, d) == d = << >> \/ IsBelow(q, d)

\* the orders in which the walk 516-531 can visit the files: every HashMap
\* is iterated in an arbitrary order, and a directory is finished before
\* its next sibling is begun
WalkOrders(package) ==
    { w \in Perms(DOMAIN package.entries) :
        \A d \in package.dirs : \A i, j, k \in DOMAIN w :
            (i < j /\ j < k /\ IsBelow(w[i], d) /\ IsBelow(w[k], d)) => IsBelow(w[j], d) }

\* recursive_file_list 516-531 on the children of the directory d, with
\* pathbuf the text pushed before the names
recursive_file_list(package, d, pathbuf, w) ==
    LET below(q) == Below(q, d)
        found    == SelectSeq(w, below)
        rest(q)  == IF d = << >> THEN q ELSE SubSeq(q, Len(d) + 2, Len(q))
    IN  [i \in DOMAIN found |->
            [path |-> pathbuf \o rest(found[i]), file |-> package.entries[found[i]],
             ref |-> found[i]]]

\* str::trim_matches('/')
RECURSIVE trim_matches(_)
trim_matches(s) ==
    IF s = << >> THEN s
    ELSE IF Head(s) = 47 THEN trim_matches(Tail(s))
    ELSE IF s[Len(s)] = 47 THEN trim_matches(SubSeq(s, 1, Len(s) - 1))
    ELSE s

\* recursive_file_list_from 487-504: the loop over paths from the k-th on,
\* as [err, list]
RECURSIVE ListFromLoop(_, _, _, _, _)
ListFromLoop(package, paths, k, w, acc) ==
    IF k > Len(paths) THEN [err |-> "", list |-> acc]
    ELSE LET path  == trim_matches(paths[k])
             entry == get(package, path)
             key   == JoinPath(split_path(path))
         IN  IF entry = "none" THEN [err |-> "no such entry", list |-> << >>]
             ELSE IF entry = "dir"
             THEN ListFromLoop(package, paths, k + 1, w,
                      acc \o recursive_file_list(package, key, path \o <<47>>, w))
             ELSE ListFromLoop(package, paths, k + 1, w,
                      Append(acc, [path |-> path, file |-> package.entries[key],
                                   ref |-> key]))

\* Package::recursive_file_list_from 483-509 for a list of paths
recursive_file_list_from_paths(package, paths, order, w) ==
    LET r == ListFromLoop(package, paths, 1, w, << >>)
    IN  IF r.err # "" THEN r ELSE [err |-> "", list |-> sort(r.list, order)]

\* Package::recursive_file_list 474-481
recursive_file_list_all(package, order, w) ==
    sort(recursive_file_list(package, << >>, << >>, w), order)

InitList ==
    /\ pc = "read"
    /\ error = ""
    /\ indir = {}
    /\ options \in { o \in PackOptions : /\ o.strategy.kind = "ArchiveFromDirName"
                                         /\ o.version = 1 /\ o.alignment = 1 }
    /\ entries = << >>
    /\ exts = {}
    /\ list = << >>
    /\ index_size = 0
    /\ dir_size = 0
    /\ data_end_offset = 0
    /\ disk = << >>
    /\ archive_md5s = << >>
    /\ pkg \in { ListPackage(S) : S \in SUBSET (DOMAIN ListFiles) }
    /\ unpacked = [status |-> "none"]
    /\ report = [status |-> "none"]
    /\ inode = [ino |-> 0]
    /\ reply = [kind |-> "none"]
    /\ walk = [to |-> "none"]
    /\ records = << >>
    /\ lookup = [kind |-> "none"]
    /\ sorting = [stage |-> "none"]
    /\ cache = [status |-> "none"]

ListFrame ==
    UNCHANGED <<mountVars, pc, error, packIn, entries, exts, layoutVars, disk, archive_md5s,
                pkg, unpacked, report, walk, records, sorting, cache>>

\* Package::recursive_file_list
ListAll ==
    /\ pc = "read"
    /\ \E order \in ListOrders, w \in WalkOrders(pkg) :
         lookup' = [kind |-> "list_all", paths |-> << >>, order |-> order, err |-> "",
                    list |-> recursive_file_list_all(pkg, order, w)]
    /\ ListFrame

\* Package::recursive_file_list_from
ListFromPaths ==
    /\ pc = "read"
    /\ \E paths \in ListArgLists, order \in ListOrders, w \in WalkOrders(pkg) :
         LET r == recursive_file_list_from_paths(pkg, paths, order, w)
         IN  lookup' = [kind |-> "list_from", paths |-> paths, order |-> order,
                        err |-> r.err, list |-> r.list]
    /\ ListFrame

NextList ==
    \/ ListAll
    \/ ListFromPaths

SpecList == InitList /\ [][NextList]_vars

\* the number of items of lst that refer to the file q
Listed(lst, q) == Cardinality({ i \in DOMAIN lst : lst[i].ref = q })

\* the file q is the entry one of the paths names, or lies below it
UnderSome(q, paths) ==
    \E k \in DOMAIN paths :
        LET key == JoinPath(split_path(trim_matches(paths[k])))
        IN  q = key \/ IsBelow(q, key)

\* C29: recursive_file_list returns every file of the tree exactly once;
\* recursive_file_list_from returns every file that is under at least one of
\* the given paths exactly once and no other file, also when paths repeat or
\* nest ("a" together with "a/b"); the result is ordered by the key list.
C29_NoRepeats ==
    /\ lookup.kind = "list_all" =>
         \A q \in DOMAIN pkg.entries : Listed(lookup.list, q) = 1
    /\ (lookup.kind = "list_from" /\ lookup.err = "") =>
         \A q \in DOMAIN pkg.entries :
             Listed(lookup.list, q) = (IF UnderSome(q, lookup.paths) THEN 1 ELSE 0)
    /\ (lookup.kind \in {"list_all", "list_from"} /\ lookup.err = "") =>
         \A i, j \in DOMAIN lookup.list :
             i < j => ~LexGreater(lookup.order, lookup.list[i], lookup.list[j])

(***************************************************************************)
(* pack with every alignment the command line accepts: main.rs 446-457     *)
(* takes whatever parse_size returns, 0 included, and PackOptions holds it *)
(* as given.                                                               *)
(***************************************************************************)
AcceptedAlignments == {0} \cup Alignments

AcceptedOptions ==
    { o \in [version : Versions, md5_chunk_size : Md5ChunkSizes, strategy : Strategies,
             max_inline_size : MaxInlineSizes, alignment : AcceptedAlignments] :
        o.version # 2 => o.md5_chunk_size = 64 }

InitAlign ==
    /\ pc = "start"
    /\ error = ""
    /\ indir \in Trees
    /\ options \in AcceptedOptions
    /\ entries = << >>
    /\ exts = {}
    /\ list = << >>
    /\ index_size = 0
    /\ dir_size = 0
    /\ data_end_offset = 0
    /\ disk = << >>
    /\ archive_md5s = << >>
    /\ pkg = [err |-> "not read"]
    /\ unpacked = [status |-> "none"]
    /\ report = [status |-> "none"]
    /\ inode = [ino |-> 0]
    /\ reply = [kind |-> "none"]
    /\ walk = [to |-> "none"]
    /\ records = << >>
    /\ lookup = [kind |-> "none"]
    /\ sorting = [stage |-> "none"]
    /\ cache = [status |-> "none"]

SpecAlign == InitAlign /\ [][NextPack]_vars

\* C30: for every alignment pack accepts, 0 included, the pass that assigns
\* the offsets completes or returns an error and never divides by zero: the
\* value 0 is rejected as an illegal argument or means no alignment.
C30_AlignmentZero == error # RemainderByZero

====
